---- MODULE Spec2Model ----
(***************************************************************************)
(* Model of scripts/run_analysis.py, the market analysis engine of the     *)
(* branch_locations repository: a single-pass pipeline that loads          *)
(* data/combined_atms.csv, cleans the coordinates and computes ranking,    *)
(* market share, gap analysis, competitive intensity and opportunity       *)
(* scores, writing one chart per step and a text report at the end.        *)
(*                                                                         *)
(* Numbers.  Coordinates are fixed-point integers in thousandths of a      *)
(* degree (40.4 is 40400).  Every comparison of a distance with a radius   *)
(* is made on the squared distance, which is exact for these inputs; a     *)
(* distance that enters a score is the integer square root (floor) of the  *)
(* squared distance, in thousandths of a degree.  Scores are in            *)
(* thousandths as well, so the weight 0.8 is 800 per competitor and the    *)
(* weight 15 is 15 per thousandth of a degree.                              *)
(***************************************************************************)
EXTENDS Integers, Sequences, FiniteSets, TLC

VARIABLES
    raw,                \* rows of data/combined_atms.csv as read
    pc,                 \* the step of the script that runs next
    error,              \* the exception that ended the run, "none" otherwise
    files,              \* the files written by this run
    df,                 \* the cleaned table (bank_name, lat, long)
    branch_counts,      \* Chart 1: value_counts sorted ascending
    atb_count,
    total_count,
    atb_rank,
    market_share,       \* Chart 2: value_counts (descending)
    market_pct,         \* Chart 2: share of each bank, as count*100 / total
    cluster,            \* Chart 5: DBSCAN label per row
    cluster_df,         \* Chart 5: rows and target rows per cluster
    region,             \* Chart 7: 'Baku' / 'Regions' per row
    atb_region,         \* Chart 7: region counts of the target bank
    gaps,               \* Chart 9: competitor rows far from the target bank
    gap_df,             \* Chart 9: every competitor row with its distance
    atb_analysis,       \* Chart 10: target rows with nearest competitor
    nearest_comp_counts, \* Chart 10: value_counts of the nearest competitor
    intensity_data,     \* Chart 11: bank -> list of intensities
    zone,               \* Chart 12: zone label per row
    zone_market_data,   \* Chart 12: per-zone summary
    opportunity_scores_baku,     \* Chart 13a: score per grid point
    opportunity_scores_regions,  \* Chart 13b: score per grid point
    grid_points_regions,         \* Chart 13b: the data-dependent grid
    atb_coords_baku,             \* Chart 13a: target coordinates used
    atb_coords_regions,          \* Chart 13b: target coordinates used
    top_opportunities_baku,      \* Chart 13a: recommended grid points
    top_opportunities_regions,   \* Chart 13b: recommended grid points
    comparison_banks,   \* Charts 2, 4 and 14: shortlist of banks
    metrics,            \* Chart 14: one record per shortlisted bank
    top_banks,          \* Chart 15: ranking labels
    insights_report,     \* the report text's computed fields
    csv,                \* fetchers: the output file of each fetcher
    ran,                \* fetchers: the fetcher that ran last, "none" before
    response,           \* fetchers: the answer of the server in that run
    branches,           \* fetchers: what fetch_branches gave in that run
    wrote,              \* fetchers: whether that run has opened its file
    ret,                \* fetchers: the return code of main() in that run
    caught,             \* fetchers: the exception main() caught, "none" otherwise
    out,                \* fetchers: the lines that run printed
    earlier,            \* what the analysis run before this one has written
    assigned            \* the derived values the completed steps have assigned

v_c1 == <<branch_counts, atb_count, total_count, atb_rank>>
v_c2 == <<market_share, market_pct>>
v_c5 == <<cluster, cluster_df>>
v_c7 == <<region, atb_region>>
v_c9 == <<gaps, gap_df>>
v_c10 == <<atb_analysis, nearest_comp_counts>>
v_c11 == <<intensity_data>>
v_c12 == <<zone, zone_market_data>>
v_c13a == <<opportunity_scores_baku, atb_coords_baku, top_opportunities_baku>>
v_c13b == <<opportunity_scores_regions, grid_points_regions, atb_coords_regions,
            top_opportunities_regions>>
v_c14 == <<metrics>>
v_c15 == <<top_banks>>
v_rep == <<insights_report>>
v_fetch == <<csv, ran, response, branches, wrote, ret, caught, out>>

vars == <<raw, pc, error, files, df, comparison_banks, v_c1, v_c2, v_c5, v_c7,
          v_c9, v_c10, v_c11, v_c12, v_c13a, v_c13b, v_c14, v_c15, v_rep, v_fetch,
          earlier, assigned>>

-----------------------------------------------------------------------------
(* Bounds of the model *)

\* longest list of freely chosen rows in the input file
MaxRows == 2

\* grid points per axis of the opportunity grids (35 and 30 in the script)
GridRes == 4

\* the number of recommended locations per grid (15 of the 1225 and of the
\* 900 grid points in the script), scaled with the grid: fewer than the
\* points of one grid line, as 15 is fewer than 35 and 30
top_n_baku == 3
top_n_regions == 3

-----------------------------------------------------------------------------
(* Program constants *)

TARGET == "AzerTurk Bank"

\* a missing bank_name cell (pandas NaN in an object column)
NoBank == "NaN"

\* Baku box of the region tag and of Chart 6: 40.3..40.5, 49.7..50.0
city_lat_min == 40300
city_lat_max == 40500
city_long_min == 49700
city_long_max == 50000

\* Baku-Absheron box of the opportunity grids: 40.30..40.65, 49.60..50.20
baku_lat_min == 40300
baku_lat_max == 40650
baku_long_min == 49600
baku_long_max == 50200

\* gap threshold 0.3, intensity radius 0.1
gap_threshold == 300
intensity_radius == 100

\* urban score: radius 0.05, weights 15 and 0.8
baku_radius == 50
baku_w1 == 15
baku_w2 == 800

\* regional score: radius 0.3, weights 10 and 0.5, fallback distance 2.0
regions_radius == 300
regions_w1 == 10
regions_w2 == 500
regions_no_atb_dist == 2000

\* margin of 0.1 around the regional rows
regions_margin == 100

\* placeholder coordinates [40.4, 49.85] and [40.0, 48.0]
placeholder_baku_lat == 40400
placeholder_baku_long == 49850
placeholder_regions_lat == 40000
placeholder_regions_long == 48000

\* DBSCAN(eps=0.5, min_samples=5)
dbscan_eps == 500
dbscan_min_samples == 5

-----------------------------------------------------------------------------
(* Arithmetic helpers *)

RECURSIVE ISqrtBetween(_, _, _)
\* the largest r in lo..hi with r*r <= n, by bisection
ISqrtBetween(n, lo, hi) ==
    IF lo >= hi THEN lo
    ELSE LET mid == (lo + hi + 1) \div 2
         IN  IF mid * mid <= n THEN ISqrtBetween(n, mid, hi)
             ELSE ISqrtBetween(n, lo, mid - 1)

\* np.sqrt on a squared distance, floored to a thousandth of a degree
ISqrt(n) == ISqrtBetween(n, 0, 20000)

\* ((a - b)**2).sum(): the squared Euclidean distance of two (lat, long)
Dist2(a, b) ==
    (a.lat - b.lat) * (a.lat - b.lat) + (a.long - b.long) * (a.long - b.long)

Min(S) == CHOOSE x \in S : \A y \in S : x <= y
Max(S) == CHOOSE x \in S : \A y \in S : x >= y

Range(s) == {s[i] : i \in DOMAIN s}

\* a sequence given as a function, as the tuple of its values.  (A value
\* that is used many times is bound by \E, CHOOSE or a set constructor,
\* so that it is computed once.)
Tup(s) == s \o <<>>

-----------------------------------------------------------------------------
(* pandas helpers *)

RECURSIVE Filter(_, _)
\* df[mask]: the rows whose index is in keep, in the original order
Filter(s, keep) ==
    IF s = <<>> THEN <<>>
    ELSE LET n == Len(s)
             front == Filter(SubSeq(s, 1, n - 1), keep)
         IN  IF n \in keep THEN Append(front, s[n]) ELSE front

\* df[['lat', 'long']].values of a table
Coords(d) == Tup([i \in DOMAIN d |-> [lat |-> d[i].lat, long |-> d[i].long]])

IsTarget(r) == r.bank_name = TARGET
\* bank_name != 'AzerTurk Bank': true of a missing name as well
IsCompetitor(r) == r.bank_name # TARGET

\* the row indices of the two masks
TargetIdx(d) == {i \in DOMAIN d : IsTarget(d[i])}
CompetitorIdx(d) == {i \in DOMAIN d : IsCompetitor(d[i])}

RECURSIVE Uniques(_)
\* Series.unique(): the distinct values in order of first appearance
Uniques(s) ==
    IF s = <<>> THEN <<>>
    ELSE LET n == Len(s)
             front == Uniques(SubSeq(s, 1, n - 1))
         IN  IF s[n] \in Range(front) THEN front ELSE Append(front, s[n])

BankNames(d) == Tup([i \in DOMAIN d |-> d[i].bank_name])

CountOf(names, b) == Cardinality({i \in DOMAIN names : names[i] = b})

RECURSIVE InsertDesc(_, _)
\* insert e after every entry whose count is >= e.count (stable, descending)
InsertDesc(s, e) ==
    IF s = <<>> THEN <<e>>
    ELSE LET n == Len(s)
         IN  IF s[n].count >= e.count THEN Append(s, e)
             ELSE Append(InsertDesc(SubSeq(s, 1, n - 1), e), s[n])

RECURSIVE SortDesc(_)
SortDesc(s) ==
    IF s = <<>> THEN <<>>
    ELSE InsertDesc(SortDesc(SubSeq(s, 1, Len(s) - 1)), s[Len(s)])

RECURSIVE InsertAsc(_, _)
InsertAsc(s, e) ==
    IF s = <<>> THEN <<e>>
    ELSE LET n == Len(s)
         IN  IF s[n].count <= e.count THEN Append(s, e)
             ELSE Append(InsertAsc(SubSeq(s, 1, n - 1), e), s[n])

RECURSIVE SortAsc(_)
SortAsc(s) ==
    IF s = <<>> THEN <<>>
    ELSE InsertAsc(SortAsc(SubSeq(s, 1, Len(s) - 1)), s[Len(s)])

\* Series.value_counts(): one entry per distinct non-null value, by
\* descending count, equal counts in order of first appearance
CountsOf(names, u) ==
    Tup([k \in DOMAIN u |-> [bank |-> u[k], count |-> CountOf(names, u[k])]])

ValueCounts(names) ==
    SortDesc(CountsOf(names,
                      Uniques(Filter(names, {i \in DOMAIN names : names[i] # NoBank}))))

\* value_counts()[bank], 0 when the bank is absent (callers check presence)
CountIn(vc, b) ==
    IF \E k \in DOMAIN vc : vc[k].bank = b
    THEN (CHOOSE e \in Range(vc) : e.bank = b).count
    ELSE 0

HasBank(vc, b) == \E k \in DOMAIN vc : vc[k].bank = b

HeadN(s, n) == SubSeq(s, 1, IF Len(s) < n THEN Len(s) ELSE n)

-----------------------------------------------------------------------------
(* Input file *)

Num(v) == [kind |-> "num", v |-> v]
\* a cell that is not a number, and an empty cell
TextCell == [kind |-> "text", v |-> 0]
EmptyCell == [kind |-> "empty", v |-> 0]

RawRow(b, la, lo) == [bank_name |-> b, lat |-> la, long |-> lo]

\* Baku centre; a point 0.05 from it; the Sumqayit side of Absheron (outside
\* the Baku box, inside the Baku-Absheron box); Ganja; Lankaran; a point
\* just south-west of the Baku-Absheron box; a corner of the Baku box
P1 == [lat |-> 40400, long |-> 49850]
P2 == [lat |-> 40430, long |-> 49810]
P3 == [lat |-> 40600, long |-> 49650]
P4 == [lat |-> 40680, long |-> 46360]
P5 == [lat |-> 38750, long |-> 48850]
P6 == [lat |-> 40250, long |-> 49550]
P7 == [lat |-> 40500, long |-> 49700]

At(b, p) == RawRow(b, Num(p.lat), Num(p.long))

\* the rows a file is freely built from
RowKinds ==
    { At(TARGET, P1), At(TARGET, P3), At(TARGET, P4),
      At("Kapital Bank", P1), At("Kapital Bank", P2), At("Kapital Bank", P4),
      At("ABB", P4), At("ABB", P5), At("ABB", P7),
      At(NoBank, P3),
      RawRow("Kapital Bank", TextCell, Num(49850)),
      RawRow("ABB", Num(40400), EmptyCell),
      RawRow(TARGET, EmptyCell, TextCell) }

\* four competitor branches that are not on one line: one in Baku, one on
\* Absheron, two in the regions
CompetitorRows ==
    << At("Kapital Bank", P2), At("ABB", P5), At("Xalq Bank", P3),
       At("Rabita Bank", P6) >>

SeqsUpTo(S, n) == UNION {[1..k -> S] : k \in 0..n}

\* the files of the model: up to MaxRows free rows, alone or after the four
\* competitor branches
RawInputs ==
    {prefix \o extra : prefix \in {<<>>, CompetitorRows},
                       extra \in SeqsUpTo(RowKinds, MaxRows)}

-----------------------------------------------------------------------------
(* Library calls *)

\* pd.to_numeric(errors='coerce') on one cell: the number, or NaN
ToNumeric(c) ==
    IF c.kind = "num" THEN [nan |-> FALSE, v |-> c.v] ELSE [nan |-> TRUE, v |-> 0]

\* a variant of the cleaning that looks at lat alone
DropNa_lat_only(d) == Filter(d, {i \in DOMAIN d : ~d[i].lat.nan})

\* df.dropna(subset=['lat', 'long'])
DropNa(d) == Filter(d, {i \in DOMAIN d : ~d[i].lat.nan /\ ~d[i].long.nan})

\* (value_counts() > count).sum() + 1
Rank(vc, count) == Cardinality({k \in DOMAIN vc : vc[k].count > count}) + 1

InCityBox(lat, long) ==
    /\ city_lat_min <= lat /\ lat <= city_lat_max
    /\ city_long_min <= long /\ long <= city_long_max

InBakuAbsheron(lat, long) ==
    /\ baku_lat_min <= lat /\ lat <= baku_lat_max
    /\ baku_long_min <= long /\ long <= baku_long_max

\* the lambda of the region column
RegionOf(r) == IF InCityBox(r.lat, r.long) THEN "Baku" ELSE "Regions"

Cross(a, b, c) ==
    (b.lat - a.lat) * (c.long - a.long) - (b.long - a.long) * (c.lat - a.lat)

Collinear(pts) ==
    \A i \in DOMAIN pts : \A j \in DOMAIN pts : \A k \in DOMAIN pts :
        Cross(pts[i], pts[j], pts[k]) = 0

\* gaussian_kde(points)(points): fewer than two points raise; points on one
\* line have a singular covariance matrix, which raises or not with the
\* rounding of the matrix; any other data set is evaluated
KdeOutcomes(pts) ==
    IF Len(pts) < 2 THEN {"error"}
    ELSE IF Collinear(pts) THEN {"ok", "error"}
    ELSE {"ok"}

EpsNeighbours(pts, i) ==
    {j \in DOMAIN pts : Dist2(pts[i], pts[j]) <= dbscan_eps * dbscan_eps}

CorePoints(pts) ==
    {i \in DOMAIN pts : Cardinality(EpsNeighbours(pts, i)) >= dbscan_min_samples}

RECURSIVE CoreReach(_, _)
\* the core points density-reachable from the core points in S
CoreReach(pts, S) ==
    LET T == S \cup {j \in CorePoints(pts) : \E i \in S : j \in EpsNeighbours(pts, i)}
    IN  IF T = S THEN S ELSE CoreReach(pts, T)

\* DBSCAN(eps=0.5, min_samples=5).fit(coords).labels_: clusters are numbered
\* in the order of their first core point; a border point joins the first
\* cluster that reaches it; -1 is noise
ClusterLeaders(pts, core) == [i \in core |-> Min(CoreReach(pts, {i}))]

LabelsFrom(pts, core, leader) ==
    Tup([i \in DOMAIN pts |->
            IF i \in core
            THEN Cardinality({leader[c] : c \in {x \in core : leader[x] < leader[i]}})
            ELSE IF core \cap EpsNeighbours(pts, i) = {} THEN -1
            ELSE Min({Cardinality({leader[c] : c \in {x \in core : leader[x] < leader[y]}}) :
                         y \in core \cap EpsNeighbours(pts, i)})])

DBSCANLabels(pts) ==
    LabelsFrom(pts, CorePoints(pts), ClusterLeaders(pts, CorePoints(pts)))

RECURSIVE SortedSeq(_)
\* the elements of a set of integers, ascending
SortedSeq(S) ==
    IF S = {} THEN <<>> ELSE <<Min(S)>> \o SortedSeq(S \ {Min(S)})

-----------------------------------------------------------------------------
(* The two fetchers, scrapers/abb_branches.py and scrapers/kb_branches.py *)

\* values of response.json(): t is the JSON type; a dict is its keys in
\* order of insertion with the values at the same positions
JNull == [t |-> "null", n |-> 0, s |-> "", keys |-> <<>>, items |-> <<>>]
JBool(b) == [t |-> "bool", n |-> IF b THEN 1 ELSE 0, s |-> "", keys |-> <<>>, items |-> <<>>]
JNum(k) == [t |-> "num", n |-> k, s |-> "", keys |-> <<>>, items |-> <<>>]
JStr(x) == [t |-> "str", n |-> 0, s |-> x, keys |-> <<>>, items |-> <<>>]
JArr(a) == [t |-> "arr", n |-> 0, s |-> "", keys |-> <<>>, items |-> a]
JObj(ks, vs) == [t |-> "obj", n |-> 0, s |-> "", keys |-> ks, items |-> vs]

HasKey(o, k) == \E i \in DOMAIN o.keys : o.keys[i] = k

\* dict.get(k): None when the key is absent
Get(o, k) ==
    IF HasKey(o, k) THEN o.items[CHOOSE i \in DOMAIN o.keys : o.keys[i] = k] ELSE JNull

\* d[k] = v: a new key goes last, an old key keeps its place
Put(o, k, v) ==
    IF HasKey(o, k)
    THEN [o EXCEPT !.items[CHOOSE i \in DOMAIN o.keys : o.keys[i] = k] = v]
    ELSE [o EXCEPT !.keys = Append(o.keys, k), !.items = Append(o.items, v)]

\* bool(v), as 'if not branches' tests it
Truthy(v) ==
    CASE v.t = "null" -> FALSE
      [] v.t \in {"num", "bool"} -> v.n # 0
      [] v.t = "str" -> v.s # ""
      [] OTHER -> v.items # <<>>

\* len(v) and iter(v) raise TypeError for None, numbers and booleans
HasLen(v) == v.t \in {"str", "arr", "obj"}

\* what a for loop over v visits: the items of a list, the keys of a dict,
\* the characters of a string (the strings of the model have at most one)
Elements(v) ==
    CASE v.t = "arr" -> v.items
      [] v.t = "obj" -> Tup([i \in DOMAIN v.keys |-> JStr(v.keys[i])])
      [] v.t = "str" -> IF v.s = "" THEN <<>> ELSE <<JStr(v.s)>>
      [] OTHER -> <<>>

\* str(v), as an f-string and csv.writer format a value
Text(v) ==
    CASE v.t = "null" -> "None"
      [] v.t = "bool" -> IF v.n = 1 THEN "True" ELSE "False"
      [] v.t = "num" -> ToString(v.n)
      [] v.t = "str" -> v.s
      [] v.t = "arr" -> "[...]"
      [] OTHER -> "{...}"

\* csv.writer writes None as the empty string
CsvCell(v) == IF v.t = "null" THEN "" ELSE Text(v)

\* the field names of the model in the order of sorted()
SortedKeys ==
    << "address", "cash_in", "city_id",
       "day_1_close_time", "day_1_customer_close", "day_1_customer_open",
       "day_1_is_open", "day_1_name", "day_1_open_time",
       "day_2_close_time", "day_2_customer_close", "day_2_customer_open",
       "day_2_is_open", "day_2_name", "day_2_open_time",
       "day_None_close_time", "day_None_customer_close", "day_None_customer_open",
       "day_None_is_open", "day_None_name", "day_None_open_time",
       "error", "id", "is_digital", "is_nfc", "is_open",
       "lat", "latitude", "lng", "long", "longitude",
       "name", "notes", "phone", "slug", "type",
       "work_hours_saturday", "work_hours_sunday", "work_hours_week",
       "working_days", "working_weekends" >>

\* a variant that sorts downwards
Sorted_reversed(names) ==
    LET up == Filter(SortedKeys, {i \in DOMAIN SortedKeys : SortedKeys[i] \in names})
    IN  Tup([k \in DOMAIN up |-> up[Len(up) + 1 - k]])

\* sorted(fieldnames)
Sorted(names) == Filter(SortedKeys, {i \in DOMAIN SortedKeys : SortedKeys[i] \in names})

\* lines 36-40 (abb), 82-86 (kb): the sorted union of the keys of all rows
FieldNames(dicts) == Sorted(UNION {Range(dicts[i].keys) : i \in DOMAIN dicts})

\* DictWriter.writerow: one cell per field name, empty for a missing key
CsvRow(d, fieldnames) ==
    Tup([j \in DOMAIN fieldnames |->
            IF HasKey(d, fieldnames[j]) THEN CsvCell(Get(d, fieldnames[j])) ELSE ""])

\* a variant of open(output_file, 'a'): the new lines follow the old ones
CsvWrite_append(old, dicts) ==
    CHOOSE file \in
        {[exists |-> TRUE,
          header |-> fieldnames,
          rows |-> old.rows \o Tup([i \in DOMAIN dicts |-> CsvRow(dicts[i], fieldnames)])] :
            fieldnames \in {FieldNames(dicts)}} : TRUE

\* lines 43-46 (abb), 89-92 (kb): open(output_file, 'w') empties the file
\* old; writeheader and writerows fill it
CsvWrite(old, dicts) ==
    CHOOSE file \in
        {[exists |-> TRUE,
          header |-> fieldnames,
          rows |-> Tup([i \in DOMAIN dicts |-> CsvRow(dicts[i], fieldnames)])] :
            fieldnames \in {FieldNames(dicts)}} : TRUE

NoFile == [exists |-> FALSE, header |-> <<>>, rows |-> <<>>]

\* a line of stdout: the fixed text and the number printed in it
Msg(text, k) == [text |-> text, n |-> k]

\* the outcome of a call: the exception raised ("none" when it returns),
\* the value returned, the file after the call, whether the call has
\* opened the file, and the lines printed
Outcome(raised, value, file, opened, lines) ==
    [raised |-> raised, value |-> value, file |-> file, wrote |-> opened, out |-> lines]

\* lines 23-26 (abb), 29-32 (kb): requests.get raises a RequestException
\* when the request fails; raise_for_status raises HTTPError, a
\* RequestException, for a status from 400 to 599 and for no other;
\* response.json() raises requests.JSONDecodeError, which is a
\* RequestException from requests 2.27 on and a plain ValueError before
fetch_branches(resp) ==
    IF resp.net # "ok" THEN Outcome("RequestException", JNull, NoFile, FALSE, <<>>)
    ELSE IF resp.status >= 400 /\ resp.status < 600
    THEN Outcome("RequestException", JNull, NoFile, FALSE, <<>>)
    ELSE IF ~resp.parses THEN Outcome(resp.decode, JNull, NoFile, FALSE, <<>>)
    ELSE Outcome("none", resp.body, NoFile, FALSE, <<>>)

\* a variant without the test of lines 31-33
abb_save_to_csv_no_empty_test(b, file, can_open) ==
    IF ~HasLen(b) THEN Outcome("TypeError", JNull, file, FALSE, <<>>)
    ELSE IF \E i \in DOMAIN Elements(b) : Elements(b)[i].t # "obj"
    THEN Outcome("AttributeError", JNull, file, FALSE, <<>>)
    ELSE IF ~can_open THEN Outcome("OSError", JNull, file, FALSE, <<>>)
    ELSE Outcome("none", JNull, CsvWrite(file, Elements(b)), TRUE,
                 <<Msg("Successfully saved {len(branches)} branches to {output_file}",
                       Len(Elements(b)))>>)

\* abb lines 29-48
abb_save_to_csv(b, file, can_open) ==
    IF ~Truthy(b)
    THEN Outcome("none", JNull, file, FALSE, <<Msg("No branch data to save.", 0)>>)
    ELSE IF ~HasLen(b) THEN Outcome("TypeError", JNull, file, FALSE, <<>>)
    ELSE IF \E i \in DOMAIN Elements(b) : Elements(b)[i].t # "obj"
    THEN Outcome("AttributeError", JNull, file, FALSE, <<>>)
    ELSE IF ~can_open THEN Outcome("OSError", JNull, file, FALSE, <<>>)
    ELSE Outcome("none", JNull, CsvWrite(file, Elements(b)), TRUE,
                 <<Msg("Successfully saved {len(branches)} branches to {output_file}",
                       Len(Elements(b)))>>)

\* kb lines 37-55: the keys of the flattened row and the keys they are read
\* from
FlatFields ==
    << <<"id", "id">>, <<"name", "name">>, <<"slug", "slug">>,
       <<"city_id", "city_id">>, <<"type", "type">>, <<"is_open", "is_open">>,
       <<"is_nfc", "is_nfc">>, <<"cash_in", "cash_in">>,
       <<"working_weekends", "working_weekends">>, <<"is_digital", "is_digital">>,
       <<"latitude", "lat">>, <<"longitude", "lng">>, <<"address", "address">>,
       <<"work_hours_week", "work_hours_week">>,
       <<"work_hours_saturday", "work_hours_saturday">>,
       <<"work_hours_sunday", "work_hours_sunday">>, <<"notes", "notes">> >>

\* kb lines 62-67: the suffixes of the day columns and the keys they are
\* read from
DayFields ==
    << <<"name", "day_of_week_name">>, <<"is_open", "is_open">>,
       <<"open_time", "open_time">>, <<"close_time", "close_time">>,
       <<"customer_open", "customer_open_time">>,
       <<"customer_close", "customer_close_time">> >>

\* f"day_{day_num}_{suffix}"
DayKey(day_num, suffix) == "day_" \o Text(day_num) \o "_" \o suffix

RECURSIVE PutDayFields(_, _, _)
\* kb lines 60-67 for one day, from the j-th day field on
PutDayFields(flat, day, j) ==
    IF j > Len(DayFields) THEN flat
    ELSE PutDayFields(Put(flat, DayKey(Get(day, "day_of_week"), DayFields[j][1]),
                          Get(day, DayFields[j][2])),
                      day, j + 1)

RECURSIVE PutDays(_, _)
\* kb lines 59-67
PutDays(flat, days) ==
    IF days = <<>> THEN flat
    ELSE PutDays(PutDayFields(flat, Head(days), 1), Tail(days))

\* kb line 58: branch.get("working_days", [])
WorkingDays(branch) ==
    IF HasKey(branch, "working_days") THEN Get(branch, "working_days") ELSE JArr(<<>>)

\* kb lines 60-61: day.get raises AttributeError when day is not a dict;
\* .lower() raises it when day_of_week_name is present and not a string
DayRaises(day) ==
    \/ day.t # "obj"
    \/ HasKey(day, "day_of_week_name") /\ Get(day, "day_of_week_name").t # "str"

\* the exception flatten_branch_data raises for branch, "none" otherwise
FlattenRaises(branch) ==
    IF branch.t # "obj" THEN "AttributeError"
    ELSE IF ~HasLen(WorkingDays(branch)) THEN "TypeError"
    ELSE IF \E i \in DOMAIN Elements(WorkingDays(branch)) :
               DayRaises(Elements(WorkingDays(branch))[i])
    THEN "AttributeError"
    ELSE "none"

\* kb lines 35-69
flatten_branch_data(branch) ==
    PutDays(JObj(Tup([j \in DOMAIN FlatFields |-> FlatFields[j][1]]),
                 Tup([j \in DOMAIN FlatFields |-> Get(branch, FlatFields[j][2])])),
            Elements(WorkingDays(branch)))

\* kb lines 72-94
kb_save_to_csv(b, file, can_open) ==
    IF ~Truthy(b)
    THEN Outcome("none", JNull, file, FALSE, <<Msg("No branch data to save.", 0)>>)
    ELSE IF ~HasLen(b) THEN Outcome("TypeError", JNull, file, FALSE, <<>>)
    ELSE IF \E i \in DOMAIN Elements(b) : FlattenRaises(Elements(b)[i]) # "none"
    THEN Outcome(FlattenRaises(Elements(b)[CHOOSE i \in DOMAIN Elements(b) :
                     /\ FlattenRaises(Elements(b)[i]) # "none"
                     /\ \A j \in 1..(i - 1) : FlattenRaises(Elements(b)[j]) = "none"]),
                 JNull, file, FALSE, <<>>)
    ELSE IF ~can_open THEN Outcome("OSError", JNull, file, FALSE, <<>>)
    ELSE Outcome("none", JNull,
                 CsvWrite(file, Tup([i \in DOMAIN Elements(b) |->
                                        flatten_branch_data(Elements(b)[i])])),
                 TRUE,
                 <<Msg("Successfully saved {len(branches)} branches to {output_file}",
                       Len(Elements(b)))>>)

\* abb lines 51-69, kb lines 97-115: main() with the outcome fetched of
\* fetch_branches and the outcome saved of save_to_csv; the value is the
\* return code, raised is the exception e that main has caught
MainOutcome(banner, fetched, saved, file) ==
    IF fetched.raised = "RequestException"
    THEN Outcome("RequestException", 1, file, FALSE,
                 <<Msg(banner, 0), Msg("Error fetching data: {e}", 0)>>)
    ELSE IF fetched.raised # "none"
    THEN Outcome(fetched.raised, 1, file, FALSE,
                 <<Msg(banner, 0), Msg("Error: {e}", 0)>>)
    ELSE IF ~HasLen(fetched.value)
    THEN Outcome("TypeError", 1, file, FALSE, <<Msg(banner, 0), Msg("Error: {e}", 0)>>)
    ELSE IF saved.raised # "none"
    THEN Outcome(saved.raised, 1, saved.file, saved.wrote,
                 <<Msg(banner, 0),
                   Msg("Fetched {len(branches)} branches", Len(Elements(fetched.value))),
                   Msg("Error: {e}", 0)>>)
    ELSE Outcome("none", 0, saved.file, saved.wrote,
                 <<Msg(banner, 0),
                   Msg("Fetched {len(branches)} branches", Len(Elements(fetched.value)))>>
                 \o saved.out)

abb_main(resp, can_open, file) ==
    CHOOSE r \in
        {MainOutcome("Fetching ABB Bank branch data...", fetched,
                     abb_save_to_csv(fetched.value, file, can_open), file) :
            fetched \in {fetch_branches(resp)}} : TRUE

kb_main(resp, can_open, file) ==
    CHOOSE r \in
        {MainOutcome("Fetching Kapital Bank branch data...", fetched,
                     kb_save_to_csv(fetched.value, file, can_open), file) :
            fetched \in {fetch_branches(resp)}} : TRUE

\* longest list of branch records in a response
MaxBranches == 2

\* the seconds of the clock
MaxClock == 2

\* branch records of the ABB API: the second has other keys and a null
AbbRecords ==
    { JObj(<<"id", "name", "lat", "long">>,
           <<JNum(1), JStr("Baku"), JStr("40.4"), JStr("49.8")>>),
      JObj(<<"phone", "id">>, <<JNull, JNum(2)>>) }

\* an entry of working_days
Day(k, name) ==
    JObj(<<"day_of_week", "day_of_week_name", "is_open", "open_time", "close_time",
           "customer_open_time", "customer_close_time">>,
         <<k, name, JBool(TRUE), JStr("09:00"), JStr("18:00"),
           JStr("09:30"), JStr("17:30")>>)

\* branch records of the Kapital Bank API: one with a working day, one
\* without working_days and with a key that is not exported
KbRecords ==
    { JObj(<<"id", "name", "lat", "lng", "working_days">>,
           <<JNum(1), JStr("Merkez"), JStr("40.4"), JStr("49.8"),
             JArr(<<Day(JNum(1), JStr("Monday"))>>)>>),
      JObj(<<"id", "lat", "phone">>, <<JNum(2), JStr("40.6"), JStr("196")>>) }

\* bodies that parse and are not a list of dicts
NotListsOfDicts ==
    { JNull, JNum(5), JStr(""), JStr("x"), JObj(<<>>, <<>>),
      JObj(<<"error">>, <<JStr("x")>>), JArr(<<JNum(1)>>),
      JArr(<<JObj(<<"id">>, <<JNum(1)>>), JStr("x")>>) }

\* lists of dicts that flatten_branch_data cannot flatten
KbBadRecords ==
    { JArr(<<JObj(<<"id", "working_days">>, <<JNum(3), JNull>>)>>),
      JArr(<<JObj(<<"id", "working_days">>,
                  <<JNum(3), JArr(<<Day(JNum(1), JNull)>>)>>)>>) }

ListsOf(records) == {JArr(l) : l \in SeqsUpTo(records, MaxBranches)}

AbbBodies == ListsOf(AbbRecords) \cup NotListsOfDicts

KbBodies == ListsOf(KbRecords) \cup NotListsOfDicts \cup KbBadRecords

\* the answers of the server: no answer; an answer with a status and a
\* body that parses (a 3xx answer without a Location header is not
\* followed); an answer whose body does not parse
Response(net, status, parses, decode, body) ==
    [net |-> net, status |-> status, parses |-> parses, decode |-> decode, body |-> body]

Responses(bodies) ==
    {Response("down", 0, FALSE, "none", JNull)}
    \cup {Response("ok", 200, TRUE, "none", b) : b \in bodies}
    \cup {Response("ok", st, TRUE, "none", b) :
             st \in {300, 404, 500},
             b \in {b \in bodies : b.t = "arr" /\ Len(b.items) = 1}}
    \cup {Response("ok", 200, FALSE, d, JNull) : d \in {"RequestException", "ValueError"}}

\* the answers each fetcher may get
AbbResponses == Responses(AbbBodies)

KbResponses == Responses(KbBodies)

\* whether open(output_file, 'w') succeeds (the directory data/ may be
\* missing): it may fail in the runs that reach it, answers of status 200
\* with a list to write
CanOpen(resp) ==
    IF resp.net = "ok" /\ resp.status = 200 /\ resp.parses /\ Truthy(resp.body)
    THEN BOOLEAN ELSE {TRUE}

\* no analysis run before this one
NoRun == [any |-> FALSE, generated |-> 0, files |-> {}]

\* no fetcher has run
NoFetch ==
    /\ csv = [f \in {"abb", "kb"} |-> NoFile]
    /\ ran = "none"
    /\ response = Response("down", 0, FALSE, "none", JNull)
    /\ branches = fetch_branches(response)
    /\ wrote = FALSE
    /\ ret = 0
    /\ caught = "none"
    /\ out = <<>>

\* one run of fetcher f on the answer resp, with outcome r of main()
Ran(f, resp, r) ==
    /\ csv' = [csv EXCEPT ![f] = r.file]
    /\ ran' = f
    /\ response' = resp
    /\ branches' = fetch_branches(resp)
    /\ wrote' = r.wrote
    /\ ret' = r.value
    /\ caught' = r.raised
    /\ out' = r.out

-----------------------------------------------------------------------------
(* The script, one action per step *)

Init ==
    /\ raw \in RawInputs
    /\ pc = "load"
    /\ error = "none"
    /\ files = {}
    /\ df = <<>>
    /\ comparison_banks = <<>>
    /\ branch_counts = <<>> /\ atb_count = 0 /\ total_count = 0 /\ atb_rank = 0
    /\ market_share = <<>> /\ market_pct = <<>>
    /\ cluster = <<>> /\ cluster_df = <<>>
    /\ region = <<>> /\ atb_region = <<>>
    /\ gaps = <<>> /\ gap_df = <<>>
    /\ atb_analysis = <<>> /\ nearest_comp_counts = <<>>
    /\ intensity_data = <<>>
    /\ zone = <<>> /\ zone_market_data = <<>>
    /\ opportunity_scores_baku = <<>> /\ atb_coords_baku = <<>>
    /\ top_opportunities_baku = <<>>
    /\ opportunity_scores_regions = <<>> /\ grid_points_regions = <<>>
    /\ atb_coords_regions = <<>> /\ top_opportunities_regions = <<>>
    /\ metrics = <<>>
    /\ top_banks = <<>>
    /\ insights_report = <<>>
    /\ NoFetch
    /\ earlier = NoRun /\ assigned = {}

\* an uncaught exception ends the run
Raise(e) == pc' = "failed" /\ error' = e

\* plt.savefig / open(..., 'w')
Save(name) == files' = files \cup {name}

\* lines 41-52: read the file, coerce lat and long, drop the rows without
Coerced(d) ==
    Tup([i \in DOMAIN d |->
            [bank_name |-> d[i].bank_name,
             lat |-> ToNumeric(d[i].lat), long |-> ToNumeric(d[i].long)]])

\* the float columns of the rows that are left
Floats(d) ==
    Tup([i \in DOMAIN d |->
            [bank_name |-> d[i].bank_name, lat |-> d[i].lat.v, long |-> d[i].long.v]])

\* the steps of the script in the order of the file, with the lines of each
Steps ==
    << [pc |-> "load", first |-> 41, last |-> 52],
       [pc |-> "chart1", first |-> 57, last |-> 84],
       [pc |-> "chart2", first |-> 89, last |-> 204],
       [pc |-> "chart3", first |-> 209, last |-> 282],
       [pc |-> "chart4", first |-> 287, last |-> 326],
       [pc |-> "chart5", first |-> 331, last |-> 392],
       [pc |-> "chart6", first |-> 398, last |-> 467],
       [pc |-> "chart7", first |-> 472, last |-> 508],
       [pc |-> "chart8", first |-> 513, last |-> 553],
       [pc |-> "chart9", first |-> 558, last |-> 648],
       [pc |-> "chart10", first |-> 653, last |-> 714],
       [pc |-> "chart11", first |-> 719, last |-> 807],
       [pc |-> "chart12", first |-> 812, last |-> 956],
       [pc |-> "chart13a", first |-> 961, last |-> 1104],
       [pc |-> "chart13b", first |-> 1109, last |-> 1326],
       [pc |-> "chart14", first |-> 1331, last |-> 1445],
       [pc |-> "chart15", first |-> 1450, last |-> 1570],
       [pc |-> "report", first |-> 1575, last |-> 1822] >>

\* the lines of the step at position p
StepLines(p) ==
    UNION {s.first .. s.last : s \in {Steps[i] : i \in {j \in DOMAIN Steps : Steps[j].pc = p}}}

\* a variant that assigns atb_region only in the dashboard, line 1527
Writes_atb_region_late ==
    { [name |-> "cluster", line |-> 334], [name |-> "cluster_df", line |-> 375],
      [name |-> "region", line |-> 473], [name |-> "atb_region", line |-> 1527],
      [name |-> "gaps", line |-> 576], [name |-> "nearest_comp_counts", line |-> 699],
      [name |-> "intensity_data", line |-> 736], [name |-> "zone", line |-> 842] }

\* the statements that assign a derived column of df or a derived aggregate
Writes ==
    { [name |-> "cluster", line |-> 334], [name |-> "cluster_df", line |-> 375],
      [name |-> "region", line |-> 473], [name |-> "atb_region", line |-> 487],
      [name |-> "gaps", line |-> 576], [name |-> "nearest_comp_counts", line |-> 699],
      [name |-> "intensity_data", line |-> 736], [name |-> "zone", line |-> 842] }

\* the lines that read one of them
ReadLines ==
    [cluster |-> {346, 348, 372, 373, 392},
     cluster_df |-> {380, 1503, 1508},
     region |-> {478, 487, 1350, 1477, 1509, 1610},
     atb_region |-> {488, 1473, 1509, 1527, 1593, 1594, 1609, 1611, 1747, 1753, 1819},
     gaps |-> {585, 586, 597, 636, 647, 1507, 1600, 1612, 1628, 1730, 1752, 1820},
     nearest_comp_counts |-> {700, 706, 1541, 1598},
     intensity_data |-> {748, 766, 1353, 1553},
     zone |-> {855, 888}]

Reads == UNION {{[name |-> n, line |-> l] : l \in ReadLines[n]} : n \in DOMAIN ReadLines}

\* a step that completes has run its assignments; a run that fails stops
\* inside the step
Assign ==
    assigned' = IF pc' = "failed" THEN assigned
                ELSE assigned \cup {w.name : w \in {x \in Writes : x.line \in StepLines(pc)}}

LoadAndClean ==
    /\ pc = "load"
    /\ df' = Floats(DropNa(Coerced(raw)))
    /\ pc' = "chart1"
    /\ Assign
    /\ UNCHANGED <<v_fetch, earlier, raw, error, files, comparison_banks, v_c1, v_c2, v_c5, v_c7,
                   v_c9, v_c10, v_c11, v_c12, v_c13a, v_c13b, v_c14, v_c15, v_rep>>

\* lines 57-84: branch counts, the target bank's count and rank.  A bar
\* plot of an empty series raises before the chart is saved.
Chart1 ==
    /\ pc = "chart1"
    /\ LET vc == ValueCounts(BankNames(df))
       IN  /\ branch_counts' = SortAsc(vc)
           /\ IF vc = <<>>
              THEN /\ Raise("IndexError")
                   /\ UNCHANGED <<files, atb_count, total_count, atb_rank>>
              ELSE /\ Save("charts/01_branch_count_comparison.png")
                   /\ atb_count' = Cardinality(TargetIdx(df))
                   /\ total_count' = Len(df)
                   /\ atb_rank' = Rank(vc, atb_count')
                   /\ pc' = "chart2"
                   /\ error' = error
    /\ Assign
    /\ UNCHANGED <<v_fetch, earlier, raw, df, comparison_banks, v_c2, v_c5, v_c7,
                   v_c9, v_c10, v_c11, v_c12, v_c13a, v_c13b, v_c14, v_c15, v_rep>>

\* the index of a value_counts() result
Banks(vc) == Tup([k \in DOMAIN vc |-> vc[k].bank])

\* market_share / total_count * 100, kept as the exact fraction num / den
SharePct(vc, total) ==
    Tup([k \in DOMAIN vc |-> [bank |-> vc[k].bank, num |-> vc[k].count * 100, den |-> total]])

\* lines 89-204: market share; market_share['AzerTurk Bank'] raises
\* KeyError when the target bank has no row
Chart2 ==
    /\ pc = "chart2"
    /\ LET vc == ValueCounts(BankNames(df))
       IN  /\ market_share' = vc
           /\ market_pct' = SharePct(vc, total_count)
           /\ IF ~HasBank(vc, TARGET)
              THEN /\ Raise("KeyError")
                   /\ UNCHANGED <<files, comparison_banks>>
              ELSE /\ comparison_banks' =
                        <<TARGET>> \o
                        HeadN(Banks(Filter(vc, {j \in DOMAIN vc : vc[j].bank # TARGET})), 5)
                   /\ Save("charts/02_market_share_analysis.png")
                   /\ pc' = "chart3"
                   /\ error' = error
    /\ Assign
    /\ UNCHANGED <<v_fetch, earlier, raw, df, v_c1, v_c5, v_c7,
                   v_c9, v_c10, v_c11, v_c12, v_c13a, v_c13b, v_c14, v_c15, v_rep>>

\* lines 209-282: scatter of all branches
Chart3 ==
    /\ pc = "chart3"
    /\ Save("charts/03_geographic_distribution_all.png")
    /\ pc' = "chart4"
    /\ Assign
    /\ UNCHANGED <<v_fetch, earlier, raw, error, df, comparison_banks, v_c1, v_c2, v_c5, v_c7,
                   v_c9, v_c10, v_c11, v_c12, v_c13a, v_c13b, v_c14, v_c15, v_rep>>

\* lines 287-326: the target bank and the top three others
Chart4 ==
    /\ pc = "chart4"
    /\ comparison_banks' =
          <<TARGET>> \o
          Filter(Banks(HeadN(ValueCounts(BankNames(df)), 3)),
                 {j \in 1..3 : j <= Len(ValueCounts(BankNames(df)))
                               /\ ValueCounts(BankNames(df))[j].bank # TARGET})
    /\ Save("charts/04_atb_vs_competitors_geographic.png")
    /\ pc' = "chart5"
    /\ Assign
    /\ UNCHANGED <<v_fetch, earlier, raw, error, df, v_c1, v_c2, v_c5, v_c7,
                   v_c9, v_c10, v_c11, v_c12, v_c13a, v_c13b, v_c14, v_c15, v_rep>>

\* lines 372-378: rows and target rows per cluster label
ClusterFrame(d, labels_, index) ==
    Tup([k \in DOMAIN index |->
           [cluster |-> index[k],
            total |-> Cardinality({i \in DOMAIN d : labels_[i] = index[k]}),
            atb |-> Cardinality({i \in DOMAIN d :
                                   labels_[i] = index[k] /\ IsTarget(d[i])})]])

\* lines 331-393: DBSCAN over all rows, rows per cluster
Chart5 ==
    /\ pc = "chart5"
    /\ cluster' = DBSCANLabels(Coords(df))
    /\ cluster_df' = ClusterFrame(df, cluster', SortedSeq(Range(cluster')))
    /\ Save("charts/05_regional_clustering.png")
    /\ pc' = "chart6"
    /\ Assign
    /\ UNCHANGED <<v_fetch, earlier, raw, error, df, comparison_banks, v_c1, v_c2, v_c7,
                   v_c9, v_c10, v_c11, v_c12, v_c13a, v_c13b, v_c14, v_c15, v_rep>>

\* lines 398-467: the rows inside the Baku box; the bar plot of their
\* counts raises when no named bank has a row there
Chart6 ==
    /\ pc = "chart6"
    /\ LET baku_df == Filter(df, {i \in DOMAIN df : InCityBox(df[i].lat, df[i].long)})
       IN  IF ValueCounts(BankNames(baku_df)) = <<>>
           THEN Raise("IndexError") /\ UNCHANGED files
           ELSE /\ Save("charts/06_baku_city_analysis.png")
                /\ pc' = "chart7"
                /\ error' = error
    /\ Assign
    /\ UNCHANGED <<v_fetch, earlier, raw, df, comparison_banks, v_c1, v_c2, v_c5, v_c7,
                   v_c9, v_c10, v_c11, v_c12, v_c13a, v_c13b, v_c14, v_c15, v_rep>>

\* Series.value_counts() of the region column of the target bank's rows:
\* a mapping whose keys are the regions that occur
RegionCounts(d, reg) ==
    LET present == {reg[i] : i \in {j \in DOMAIN d : IsTarget(d[j])}}
    IN  [r \in present |-> Cardinality({i \in DOMAIN d : IsTarget(d[i]) /\ reg[i] = r})]

\* lines 472-508: the region column; region_pct['Regions'] raises KeyError
\* when no named bank has a row outside the Baku box
Chart7 ==
    /\ pc = "chart7"
    /\ region' = Tup([i \in DOMAIN df |-> RegionOf(df[i])])
    /\ atb_region' = RegionCounts(df, region')
    /\ IF \A i \in DOMAIN df : df[i].bank_name = NoBank \/ region'[i] # "Regions"
       THEN Raise("KeyError") /\ UNCHANGED files
       ELSE /\ Save("charts/07_baku_vs_regions.png")
            /\ pc' = "chart8"
            /\ error' = error
    /\ Assign
    /\ UNCHANGED <<v_fetch, earlier, raw, df, comparison_banks, v_c1, v_c2, v_c5,
                   v_c9, v_c10, v_c11, v_c12, v_c13a, v_c13b, v_c14, v_c15, v_rep>>

\* lines 513-553: kernel density of all rows and of the competitor rows
Chart8 ==
    /\ pc = "chart8"
    /\ \E all \in KdeOutcomes(Coords(df)) :
       \E comp \in KdeOutcomes(Coords(Filter(df, CompetitorIdx(df)))) :
          IF all = "ok" /\ comp = "ok"
          THEN /\ Save("charts/08_competitive_density.png")
               /\ pc' = "chart9"
               /\ error' = error
          ELSE Raise("LinAlgError") /\ UNCHANGED files
    /\ Assign
    /\ UNCHANGED <<v_fetch, earlier, raw, df, comparison_banks, v_c1, v_c2, v_c5, v_c7,
                   v_c9, v_c10, v_c11, v_c12, v_c13a, v_c13b, v_c14, v_c15, v_rep>>

\* the squared distance from p to the nearest of pts (pts not empty)
NearestDist2(pts, p) == Min({Dist2(pts[i], p) : i \in DOMAIN pts})

RECURSIVE InsertByD2Desc(_, _)
InsertByD2Desc(s, e) ==
    IF s = <<>> THEN <<e>>
    ELSE LET n == Len(s)
         IN  IF s[n].d2 >= e.d2 THEN Append(s, e)
             ELSE Append(InsertByD2Desc(SubSeq(s, 1, n - 1), e), s[n])

RECURSIVE SortByDistanceDesc(_)
\* sort_values('distance_to_bob', ascending=False)
SortByDistanceDesc(s) ==
    IF s = <<>> THEN <<>>
    ELSE InsertByD2Desc(SortByDistanceDesc(SubSeq(s, 1, Len(s) - 1)), s[Len(s)])

\* a variant that leaves out the square root
GapRow_squared(c, d2) ==
    [lat |-> c.lat, long |-> c.long, bank |-> c.bank_name,
     d2 |-> d2, distance_to_bob |-> d2]

\* lines 559-573: every competitor row with the distance to the nearest
\* row of the target bank (d2 is the square of that distance)
GapRow(c, d2) ==
    [lat |-> c.lat, long |-> c.long, bank |-> c.bank_name,
     d2 |-> d2, distance_to_bob |-> ISqrt(d2)]

GapRows(atb_coords, comp) ==
    Tup([k \in DOMAIN comp |-> GapRow(comp[k], NearestDist2(atb_coords, comp[k]))])

GapFrame(d) ==
    GapRows(Coords(Filter(d, TargetIdx(d))), Filter(d, CompetitorIdx(d)))

\* a variant that measures against the intensity radius 0.1
IsGap_at_intensity_radius(g) == g.d2 > intensity_radius * intensity_radius

\* gap_df['distance_to_bob'] > 0.3
IsGap(g) == g.d2 > gap_threshold * gap_threshold

\* line 576
Gaps(g) == SortByDistanceDesc(Filter(g, {k \in DOMAIN g : IsGap(g[k])}))

\* lines 558-648: gap analysis.  NearestNeighbors.fit raises ValueError on
\* an empty array; len(bank) raises TypeError on a missing bank name among
\* the first 15 gaps, before the chart is saved.
Chart9 ==
    /\ pc = "chart9"
    /\ IF TargetIdx(df) = {} \/ CompetitorIdx(df) = {}
       THEN Raise("ValueError") /\ UNCHANGED <<files, v_c9>>
       ELSE /\ gap_df' = GapFrame(df)
            /\ gaps' = Gaps(gap_df')
            /\ IF \E k \in DOMAIN HeadN(gaps', 15) : gaps'[k].bank = NoBank
               THEN Raise("TypeError") /\ UNCHANGED files
               ELSE /\ Save("charts/09_gap_analysis.png")
                    /\ pc' = "chart10"
                    /\ error' = error
    /\ Assign
    /\ UNCHANGED <<v_fetch, earlier, raw, df, comparison_banks, v_c1, v_c2, v_c5, v_c7,
                   v_c10, v_c11, v_c12, v_c13a, v_c13b, v_c14, v_c15, v_rep>>

\* the indices of pts nearest to p
ArgNearest(pts, p) == {i \in DOMAIN pts : Dist2(pts[i], p) = NearestDist2(pts, p)}

\* idx_comp of line 655: for each target row the index of a nearest
\* competitor row
NearestChoices(atb, comp_coords) ==
    {f \in [DOMAIN atb -> DOMAIN comp_coords] :
        \A k \in DOMAIN atb : f[k] \in ArgNearest(comp_coords, atb[k])}

AtbRow(a, d2, bank) ==
    [lat |-> a.lat, long |-> a.long, d2 |-> d2,
     dist_to_competitor |-> ISqrt(d2), nearest_competitor |-> bank]

\* lines 657-659
AtbAnalysis(atb, comp, idx_comp) ==
    Tup([k \in DOMAIN atb |->
           AtbRow(atb[k], Dist2(comp[idx_comp[k]], atb[k]), comp[idx_comp[k]].bank_name)])

\* lines 653-714: for every row of the target bank the nearest competitor
\* row; kneighbors returns any one of several equally near rows.  The bar
\* plot of an empty nearest_comp_counts raises before the chart is saved.
Chart10 ==
    /\ pc = "chart10"
    /\ \E idx_comp \in NearestChoices(Filter(df, TargetIdx(df)),
                                      Coords(Filter(df, CompetitorIdx(df)))) :
          /\ atb_analysis' = AtbAnalysis(Filter(df, TargetIdx(df)),
                                         Filter(df, CompetitorIdx(df)), idx_comp)
          /\ nearest_comp_counts' =
                ValueCounts(Tup([k \in DOMAIN atb_analysis' |->
                                    atb_analysis'[k].nearest_competitor]))
    /\ IF nearest_comp_counts' = <<>>
       THEN Raise("IndexError") /\ UNCHANGED files
       ELSE /\ Save("charts/10_nearest_competitor_analysis.png")
            /\ pc' = "chart11"
            /\ error' = error
    /\ Assign
    /\ UNCHANGED <<v_fetch, earlier, raw, df, comparison_banks, v_c1, v_c2, v_c5, v_c7,
                   v_c9, v_c11, v_c12, v_c13a, v_c13b, v_c14, v_c15, v_rep>>

\* a variant without the distances > 0 test
NearbyRows_with_self(d, coord, radius) ==
    {j \in DOMAIN d : Dist2(d[j], coord) < radius * radius}

\* lines 728-730: the rows of d counted for the branch at coord
NearbyRows(d, coord, radius) ==
    {j \in DOMAIN d : /\ Dist2(d[j], coord) > 0
                      /\ Dist2(d[j], coord) < radius * radius}

\* lines 721-733; a missing bank name equals no row's name
Intensities(d, bank_coords, radius) ==
    Tup([k \in DOMAIN bank_coords |-> Cardinality(NearbyRows(d, bank_coords[k], radius))])

calculate_competitive_intensity(d, bank_name, radius) ==
    Intensities(d, IF bank_name = NoBank THEN <<>>
                   ELSE Filter(d, {i \in DOMAIN d : d[i].bank_name = bank_name}),
                radius)

\* lines 719-807: intensity of every bank of df['bank_name'].unique();
\* np.max of an empty list raises ValueError before the chart is saved
Chart11 ==
    /\ pc = "chart11"
    /\ intensity_data' =
          [b \in Range(BankNames(df)) |->
              calculate_competitive_intensity(df, b, intensity_radius)]
    /\ IF \E b \in DOMAIN intensity_data' : intensity_data'[b] = <<>>
       THEN Raise("ValueError") /\ UNCHANGED files
       ELSE /\ Save("charts/11_competitive_intensity.png")
            /\ pc' = "chart12"
            /\ error' = error
    /\ Assign
    /\ UNCHANGED <<v_fetch, earlier, raw, df, comparison_banks, v_c1, v_c2, v_c5, v_c7,
                   v_c9, v_c10, v_c12, v_c13a, v_c13b, v_c14, v_c15, v_rep>>

\* a variant that tests the Absheron rule before the Baku City rule
assign_zone_absheron_first(row) ==
    LET lat == row.lat
        long == row.long
    IN  IF 40200 <= lat /\ lat <= 40600 /\ 49500 <= long /\ long <= 50300 THEN "Absheron"
        ELSE IF 40300 <= lat /\ lat <= 40500 /\ 49700 <= long /\ long <= 50000 THEN "Baku City"
        ELSE IF lat > 41000 THEN "North"
        ELSE IF lat > 40500 /\ long < 48500 THEN "Northwest"
        ELSE IF 40000 <= lat /\ lat <= 40800 /\ 47000 <= long /\ long < 49500 THEN "Central"
        ELSE IF lat < 39000 THEN "South"
        ELSE IF long < 46000 THEN "West"
        ELSE "Other"

\* lines 815-840
assign_zone(row) ==
    LET lat == row.lat
        long == row.long
    IN  IF 40300 <= lat /\ lat <= 40500 /\ 49700 <= long /\ long <= 50000 THEN "Baku City"
        ELSE IF 40200 <= lat /\ lat <= 40600 /\ 49500 <= long /\ long <= 50300 THEN "Absheron"
        ELSE IF lat > 41000 THEN "North"
        ELSE IF lat > 40500 /\ long < 48500 THEN "Northwest"
        ELSE IF 40000 <= lat /\ lat <= 40800 /\ 47000 <= long /\ long < 49500 THEN "Central"
        ELSE IF lat < 39000 THEN "South"
        ELSE IF long < 46000 THEN "West"
        ELSE "Other"

zones_order == <<"Baku City", "Absheron", "North", "Northwest", "Central", "South", "West">>

\* lines 887-903: one record per zone of zones_order that has a row
ZoneRecord(z, zone_df, vc, atb_count_zone) ==
    [Zone |-> z,
     Total |-> Len(zone_df),
     ATB_Count |-> atb_count_zone,
     ATB_Rank |-> IF atb_count_zone > 0 THEN Rank(vc, atb_count_zone) ELSE 0,
     Leader |-> IF vc # <<>> THEN vc[1].bank ELSE "N/A",
     Leader_Count |-> IF vc # <<>> THEN vc[1].count ELSE 0]

ZoneRecordOf(z, zone_df) ==
    ZoneRecord(z, zone_df, ValueCounts(BankNames(zone_df)),
               Cardinality(TargetIdx(zone_df)))

ZoneRecords(d, zn, present) ==
    Tup([k \in DOMAIN present |->
           ZoneRecordOf(present[k], Filter(d, {i \in DOMAIN d : zn[i] = present[k]}))])

ZoneMarketData(d, zn) ==
    ZoneRecords(d, zn,
                Filter(zones_order,
                       {k \in DOMAIN zones_order : \E i \in DOMAIN d : zn[i] = zones_order[k]}))

\* lines 812-956: the zone column and the per-zone summary;
\* value_counts().index[0] raises IndexError for a zone whose rows all
\* lack a bank name
Chart12 ==
    /\ pc = "chart12"
    /\ zone' = Tup([i \in DOMAIN df |-> assign_zone(df[i])])
    /\ IF \E z \in Range(zone') :
            \A i \in DOMAIN df : zone'[i] = z => df[i].bank_name = NoBank
       THEN Raise("IndexError") /\ UNCHANGED <<files, zone_market_data>>
       ELSE /\ zone_market_data' = ZoneMarketData(df, zone')
            /\ Save("charts/12_regional_market_dominance.png")
            /\ pc' = "chart13a"
            /\ error' = error
    /\ Assign
    /\ UNCHANGED <<v_fetch, earlier, raw, df, comparison_banks, v_c1, v_c2, v_c5, v_c7,
                   v_c9, v_c10, v_c11, v_c13a, v_c13b, v_c14, v_c15, v_rep>>


\* np.linspace(lo, hi, n)[i], i from 0, floored to a thousandth of a degree
LinSpace(lo, hi, n, i) == lo + (i * (hi - lo)) \div (n - 1)

\* [[lat, long] for lat in lat_grid for long in long_grid]
GridPoints(lat_lo, lat_hi, long_lo, long_hi, n) ==
    Tup([k \in 1..(n * n) |->
            [lat |-> LinSpace(lat_lo, lat_hi, n, (k - 1) \div n),
             long |-> LinSpace(long_lo, long_hi, n, (k - 1) % n)]])

\* (distances_comp < radius).sum()
NearbyComps(comp_coords, point, radius) ==
    Cardinality({j \in DOMAIN comp_coords : Dist2(comp_coords[j], point) < radius * radius})

\* lines 999-1011, with the arrays it reads as parameters
calculate_opportunity_score_baku(point, atb_coords, comp_coords) ==
    LET dist_score == ISqrt(NearestDist2(atb_coords, point))
        nearby_comps == NearbyComps(comp_coords, point, baku_radius)
    IN  dist_score * baku_w1 + nearby_comps * baku_w2

\* a variant without the test of the Baku-Absheron box
calculate_opportunity_score_regions_no_box(point, atb_coords, comp_coords) ==
    LET dist_score == IF Len(atb_coords) > 0
                      THEN ISqrt(NearestDist2(atb_coords, point))
                      ELSE regions_no_atb_dist
        nearby_comps == NearbyComps(comp_coords, point, regions_radius)
    IN  dist_score * regions_w1 + nearby_comps * regions_w2

\* lines 1197-1215, with the arrays it reads as parameters
calculate_opportunity_score_regions(point, atb_coords, comp_coords) ==
    IF InBakuAbsheron(point.lat, point.long) THEN 0
    ELSE LET dist_score == IF Len(atb_coords) > 0
                           THEN ISqrt(NearestDist2(atb_coords, point))
                           ELSE regions_no_atb_dist
             nearby_comps == NearbyComps(comp_coords, point, regions_radius)
         IN  dist_score * regions_w1 + nearby_comps * regions_w2

\* line 1013
ScoresBaku(grid, atb_coords, comp_coords) ==
    Tup([k \in DOMAIN grid |->
            calculate_opportunity_score_baku(grid[k], atb_coords, comp_coords)])

\* line 1217
ScoresRegions(grid, atb_coords, comp_coords) ==
    Tup([k \in DOMAIN grid |->
            calculate_opportunity_score_regions(grid[k], atb_coords, comp_coords)])

\* grid_points[flat_indices]
Take(grid, flat) == Tup([k \in DOMAIN flat |-> grid[flat[k]]])

\* the place of each index in scores.argsort(): ascending score, equal
\* scores in index order
Positions(scores) ==
    Tup([i \in DOMAIN scores |->
            1 + Cardinality({j \in DOMAIN scores :
                               \/ scores[j] < scores[i]
                               \/ scores[j] = scores[i] /\ j < i})])

OrderFrom(pos) == Tup([k \in DOMAIN pos |-> CHOOSE i \in DOMAIN pos : pos[i] = k])

\* scores.argsort()
ArgSort(scores) == CHOOSE order \in {OrderFrom(pos) : pos \in {Positions(scores)}} : TRUE

Reverse(s) == Tup([k \in DOMAIN s |-> s[Len(s) + 1 - k]])

\* order[-top_n:]
LastN(order, top_n) ==
    SubSeq(order, IF Len(order) > top_n THEN Len(order) - top_n + 1 ELSE 1, Len(order))

\* a variant that takes the first top_n indices of the argsort
TopIndices_lowest(scores, top_n) ==
    CHOOSE flat \in {HeadN(order, top_n) : order \in {ArgSort(scores)}} : TRUE

\* scores.argsort()[-top_n:][::-1]
TopIndices(scores, top_n) ==
    CHOOSE flat \in {Reverse(last) : last \in {LastN(order, top_n) : order \in {ArgSort(scores)}}} :
        TRUE

\* lines 984-990 and 1179-1185: the rows inside (outside) the Baku-Absheron box
InBakuAbsheronRow(r) == InBakuAbsheron(r.lat, r.long)
OutsideBakuAbsheronRow(r) == ~InBakuAbsheron(r.lat, r.long)

\* line 989
AtbCoordsBaku(d) ==
    LET atb_baku == Filter(d, {i \in DOMAIN d : InBakuAbsheronRow(d[i]) /\ IsTarget(d[i])})
    IN  IF Len(atb_baku) > 0 THEN Coords(atb_baku)
        ELSE <<[lat |-> placeholder_baku_lat, long |-> placeholder_baku_long]>>

\* line 990
CompCoordsBaku(d) ==
    Coords(Filter(d, {i \in DOMAIN d : InBakuAbsheronRow(d[i]) /\ IsCompetitor(d[i])}))

\* a variant that keeps the empty array when the target bank has no row
\* outside the box
AtbCoordsRegions_no_placeholder(d) ==
    Coords(Filter(d, {i \in DOMAIN d : OutsideBakuAbsheronRow(d[i]) /\ IsTarget(d[i])}))

\* line 1184
AtbCoordsRegions(d) ==
    LET atb_regions == Filter(d, {i \in DOMAIN d :
                                    OutsideBakuAbsheronRow(d[i]) /\ IsTarget(d[i])})
    IN  IF Len(atb_regions) > 0 THEN Coords(atb_regions)
        ELSE <<[lat |-> placeholder_regions_lat, long |-> placeholder_regions_long]>>

\* line 1185
CompCoordsRegions(d) ==
    Coords(Filter(d, {i \in DOMAIN d : OutsideBakuAbsheronRow(d[i]) /\ IsCompetitor(d[i])}))

\* lines 992-996
grid_points_baku ==
    GridPoints(baku_lat_min, baku_lat_max, baku_long_min, baku_long_max, GridRes)

\* lines 961-1104: the urban opportunity grid and its best points
Chart13a ==
    /\ pc = "chart13a"
    /\ atb_coords_baku' = AtbCoordsBaku(df)
    /\ \E grid \in {grid_points_baku} : \E comp_coords_baku \in {CompCoordsBaku(df)} :
          /\ opportunity_scores_baku' = ScoresBaku(grid, atb_coords_baku', comp_coords_baku)
          /\ \E flat_indices_baku \in {TopIndices(opportunity_scores_baku', top_n_baku)} :
                top_opportunities_baku' = Take(grid, flat_indices_baku)
    /\ Save("charts/13a_growth_opportunity_baku_absheron.png")
    /\ pc' = "chart13b"
    /\ Assign
    /\ UNCHANGED <<v_fetch, earlier, raw, error, df, comparison_banks, v_c1, v_c2, v_c5, v_c7,
                   v_c9, v_c10, v_c11, v_c12, v_c13b, v_c14, v_c15, v_rep>>

\* lines 1187-1194: the grid over the bounding box of the rows outside the
\* Baku-Absheron box, widened by 0.1; without such a row the bounds are
\* NaN and the grid has no finite point (it is modelled without points)
GridOver(lats, longs) ==
    IF lats = {} THEN <<>>
    ELSE GridPoints(Min(lats) - regions_margin, Max(lats) + regions_margin,
                    Min(longs) - regions_margin, Max(longs) + regions_margin,
                    GridRes)

GridPointsRegions(d) ==
    GridOver({d[i].lat : i \in {j \in DOMAIN d : OutsideBakuAbsheronRow(d[j])}},
             {d[i].long : i \in {j \in DOMAIN d : OutsideBakuAbsheronRow(d[j])}})

\* lines 1256-1258: drop the points inside the Baku-Absheron box
OutsideOnly(top) ==
    HeadN(Filter(top, {k \in DOMAIN top : ~InBakuAbsheron(top[k].lat, top[k].long)}),
          top_n_regions)

\* a variant that saves the regional map under the name of the urban map
chart13b_file_of_13a == "charts/13a_growth_opportunity_baku_absheron.png"

\* line 1311: the file of the regional map
chart13b_file == "charts/13b_growth_opportunity_regions.png"

\* lines 1109-1326: the regional opportunity grid and its best points
Chart13b ==
    /\ pc = "chart13b"
    /\ atb_coords_regions' = AtbCoordsRegions(df)
    /\ grid_points_regions' = GridPointsRegions(df)
    /\ \E comp_coords_regions \in {CompCoordsRegions(df)} :
          opportunity_scores_regions' =
             ScoresRegions(grid_points_regions', atb_coords_regions', comp_coords_regions)
    /\ \E flat_indices_regions \in {TopIndices(opportunity_scores_regions', top_n_regions)} :
       \E top \in {Take(grid_points_regions', flat_indices_regions)} :
          top_opportunities_regions' = OutsideOnly(top)
    /\ Save(chart13b_file)
    /\ pc' = "chart14"
    /\ Assign
    /\ UNCHANGED <<v_fetch, earlier, raw, error, df, comparison_banks, v_c1, v_c2, v_c5, v_c7,
                   v_c9, v_c10, v_c11, v_c12, v_c13a, v_c14, v_c15, v_rep>>

RECURSIVE SumSeq(_)
SumSeq(s) == IF s = <<>> THEN 0 ELSE s[Len(s)] + SumSeq(SubSeq(s, 1, Len(s) - 1))

\* lines 1333-1337
\* a variant that always appends the target bank to the first four
Shortlist_always_append(top_5_banks) ==
    HeadN(top_5_banks, 4) \o <<TARGET>>

Shortlist(top_5_banks) ==
    IF TARGET \notin Range(top_5_banks)
    THEN HeadN(top_5_banks, 4) \o <<TARGET>>
    ELSE top_5_banks

ComparisonBanks(d) == Shortlist(Banks(HeadN(ValueCounts(BankNames(d)), 5)))

\* a variant whose third metric counts the rows of the region 'Regions'
BankMetrics_regions_share(d, reg, intensities, bank) ==
    LET rows == {i \in DOMAIN d : d[i].bank_name = bank}
        lats == {d[i].lat : i \in rows}
        longs == {d[i].long : i \in rows}
    IN  [Bank |-> bank,
         Branch_Count |-> Cardinality(rows),
         Geographic_Spread |-> (Max(lats) - Min(lats)) + (Max(longs) - Min(longs)),
         Baku_Percentage |-> [num |-> 100 * Cardinality({i \in rows : reg[i] = "Regions"}),
                              den |-> Cardinality(rows)],
         Avg_Competitive_Intensity |-> [num |-> SumSeq(intensities[bank]),
                                        den |-> Len(intensities[bank])]]

\* lines 1341-1361: the metrics of one bank; percentages and averages are
\* kept as exact fractions num / den
BankMetrics(d, reg, intensities, bank) ==
    LET rows == {i \in DOMAIN d : d[i].bank_name = bank}
        lats == {d[i].lat : i \in rows}
        longs == {d[i].long : i \in rows}
    IN  [Bank |-> bank,
         Branch_Count |-> Cardinality(rows),
         Geographic_Spread |-> (Max(lats) - Min(lats)) + (Max(longs) - Min(longs)),
         Baku_Percentage |-> [num |-> 100 * Cardinality({i \in rows : reg[i] = "Baku"}),
                              den |-> Cardinality(rows)],
         Avg_Competitive_Intensity |-> [num |-> SumSeq(intensities[bank]),
                                        den |-> Len(intensities[bank])]]

\* lines 1331-1445: the multi-metric comparison of the shortlist
Chart14 ==
    /\ pc = "chart14"
    /\ comparison_banks' = ComparisonBanks(df)
    /\ metrics' = Tup([k \in DOMAIN comparison_banks' |->
                          BankMetrics(df, region, intensity_data, comparison_banks'[k])])
    /\ Save("charts/14_multimetric_comparison.png")
    /\ pc' = "chart15"
    /\ Assign
    /\ UNCHANGED <<v_fetch, earlier, raw, error, df, v_c1, v_c2, v_c5, v_c7,
                   v_c9, v_c10, v_c11, v_c12, v_c13a, v_c13b, v_c15, v_rep>>

\* lines 1457-1461: the first eight banks of value_counts(), each labelled
\* '#{i+1}. {bank}' with its position
Labelled(top) ==
    Tup([k \in DOMAIN top |-> [label |-> k, bank |-> top[k].bank, count |-> top[k].count]])

TopBanks(d) == Labelled(HeadN(ValueCounts(BankNames(d)), 8))

\* a variant that draws the dashboard without reading atb_region
Chart15_no_region_lookup ==
    /\ pc = "chart15"
    /\ top_banks' = TopBanks(df)
    /\ Save("charts/15_executive_summary_dashboard.png")
    /\ pc' = "report"
    /\ error' = error
    /\ Assign
    /\ UNCHANGED <<v_fetch, earlier, raw, df, comparison_banks, v_c1, v_c2, v_c5, v_c7,
                   v_c9, v_c10, v_c11, v_c12, v_c13a, v_c13b, v_c14, v_rep>>

\* lines 1450-1570: the dashboard.  atb_region['Regions'] raises KeyError
\* when the target bank has no row outside the Baku box; the pie of
\* atb_region with two explode values raises ValueError when the target
\* bank has no row inside it.
Chart15 ==
    /\ pc = "chart15"
    /\ top_banks' = TopBanks(df)
    /\ IF "Regions" \notin DOMAIN atb_region
       THEN Raise("KeyError") /\ UNCHANGED files
       ELSE IF "Baku" \notin DOMAIN atb_region
       THEN Raise("ValueError") /\ UNCHANGED files
       ELSE /\ Save("charts/15_executive_summary_dashboard.png")
            /\ pc' = "report"
            /\ error' = error
    /\ Assign
    /\ UNCHANGED <<v_fetch, earlier, raw, df, comparison_banks, v_c1, v_c2, v_c5, v_c7,
                   v_c9, v_c10, v_c11, v_c12, v_c13a, v_c13b, v_c14, v_rep>>

\* int(x) of the fraction num / den, den > 0: truncation toward zero
IntOf(num, den) == IF num >= 0 THEN num \div den ELSE -((-num) \div den)

\* lines 1670-1685: the branch numbers of the market share growth path
GrowthPath(total, atb, counts) ==
    LET need == IntOf(total * 10, 100) - atb
    IN  [to_10_percent |-> need,
         to_position_5 |-> counts[Len(counts) - 4].count - atb,
         phase_1 |-> IntOf(need * 40, 100),
         phase_2 |-> IntOf(need * 35, 100),
         phase_3 |-> IntOf(need * 25, 100)]

\* line 1581: pd.Timestamp.now() to the second; the clock does not run
\* backwards between two runs
Now(before) == {t \in 1..MaxClock : t >= before.generated}

\* lines 1577-1781: the computed fields of the report text
ReportText(now, growth) ==
    [generated |-> now,
     to_10_percent |-> growth.to_10_percent, to_position_5 |-> growth.to_position_5,
     phase_1 |-> growth.phase_1, phase_2 |-> growth.phase_2, phase_3 |-> growth.phase_3]

\* lines 1575-1822: the report.  sorted(branch_counts.values,
\* reverse=True)[4] raises IndexError with fewer than five banks, before
\* the file is opened.
Report ==
    /\ pc = "report"
    /\ IF Len(branch_counts) < 5
       THEN Raise("IndexError") /\ UNCHANGED <<files, insights_report>>
       ELSE /\ \E now \in Now(earlier) :
                  insights_report' =
                      ReportText(now, GrowthPath(total_count, atb_count, branch_counts))
            /\ Save("docs/STRATEGIC_INSIGHTS.txt")
            /\ pc' = "done"
            /\ error' = error
    /\ Assign
    /\ UNCHANGED <<v_fetch, earlier, raw, df, comparison_banks, v_c1, v_c2, v_c5, v_c7,
                   v_c9, v_c10, v_c11, v_c12, v_c13a, v_c13b, v_c14, v_c15>>


Next ==
    \/ LoadAndClean
    \/ Chart1
    \/ Chart2
    \/ Chart3
    \/ Chart4
    \/ Chart5
    \/ Chart6
    \/ Chart7
    \/ Chart8
    \/ Chart9
    \/ Chart10
    \/ Chart11
    \/ Chart12
    \/ Chart13a
    \/ Chart13b
    \/ Chart14
    \/ Chart15
    \/ Report

Spec == Init /\ [][Next]_vars

-----------------------------------------------------------------------------
(* Runs on files large enough to complete: two rows of the target bank, one
   in Baku and one in the regions, the four competitor branches, and up to
   ExtraRows further rows of any kind *)

ExtraRows == 1

FullRunRows == << At(TARGET, P1), At(TARGET, P4) >> \o CompetitorRows

InitFullRun ==
    /\ raw \in {FullRunRows \o extra : extra \in SeqsUpTo(RowKinds, ExtraRows)}
    /\ pc = "load"
    /\ error = "none"
    /\ files = {}
    /\ df = <<>>
    /\ comparison_banks = <<>>
    /\ branch_counts = <<>> /\ atb_count = 0 /\ total_count = 0 /\ atb_rank = 0
    /\ market_share = <<>> /\ market_pct = <<>>
    /\ cluster = <<>> /\ cluster_df = <<>>
    /\ region = <<>> /\ atb_region = <<>>
    /\ gaps = <<>> /\ gap_df = <<>>
    /\ atb_analysis = <<>> /\ nearest_comp_counts = <<>>
    /\ intensity_data = <<>>
    /\ zone = <<>> /\ zone_market_data = <<>>
    /\ opportunity_scores_baku = <<>> /\ atb_coords_baku = <<>>
    /\ top_opportunities_baku = <<>>
    /\ opportunity_scores_regions = <<>> /\ grid_points_regions = <<>>
    /\ atb_coords_regions = <<>> /\ top_opportunities_regions = <<>>
    /\ metrics = <<>>
    /\ top_banks = <<>>
    /\ insights_report = <<>>
    /\ NoFetch
    /\ earlier = NoRun /\ assigned = {}

SpecFullRun == InitFullRun /\ [][Next]_vars

-----------------------------------------------------------------------------
(* Runs of the fetchers, in any number.  The two fetchers share nothing,
   each asks its own server and writes its own file: a behaviour is the
   runs of one of them. *)

v_analysis == <<earlier, assigned, raw, pc, error, files, df, comparison_banks, v_c1, v_c2, v_c5,
                v_c7, v_c9, v_c10, v_c11, v_c12, v_c13a, v_c13b, v_c14, v_c15, v_rep>>

\* python scrapers/abb_branches.py
AbbMain ==
    /\ ran \in {"none", "abb"}
    /\ \E resp \in AbbResponses : \E can_open \in CanOpen(resp) :
          \E r \in {abb_main(resp, can_open, csv["abb"])} :
              Ran("abb", resp, r)
    /\ UNCHANGED v_analysis

\* python scrapers/kb_branches.py
KbMain ==
    /\ ran \in {"none", "kb"}
    /\ \E resp \in KbResponses : \E can_open \in CanOpen(resp) :
          \E r \in {kb_main(resp, can_open, csv["kb"])} :
              Ran("kb", resp, r)
    /\ UNCHANGED v_analysis

InitFetch ==
    /\ NoFetch
    /\ earlier = NoRun /\ assigned = {}
    /\ raw = <<>>
    /\ pc = "load"
    /\ error = "none"
    /\ files = {}
    /\ df = <<>>
    /\ comparison_banks = <<>>
    /\ branch_counts = <<>> /\ atb_count = 0 /\ total_count = 0 /\ atb_rank = 0
    /\ market_share = <<>> /\ market_pct = <<>>
    /\ cluster = <<>> /\ cluster_df = <<>>
    /\ region = <<>> /\ atb_region = <<>>
    /\ gaps = <<>> /\ gap_df = <<>>
    /\ atb_analysis = <<>> /\ nearest_comp_counts = <<>>
    /\ intensity_data = <<>>
    /\ zone = <<>> /\ zone_market_data = <<>>
    /\ opportunity_scores_baku = <<>> /\ atb_coords_baku = <<>>
    /\ top_opportunities_baku = <<>>
    /\ opportunity_scores_regions = <<>> /\ grid_points_regions = <<>>
    /\ atb_coords_regions = <<>> /\ top_opportunities_regions = <<>>
    /\ metrics = <<>>
    /\ top_banks = <<>>
    /\ insights_report = <<>>

NextFetch ==
    \/ AbbMain
    \/ KbMain

SpecFetch == InitFetch /\ [][NextFetch]_vars

-----------------------------------------------------------------------------
(* A completed run followed by a second run of the script on the same file *)

\* python scripts/run_analysis.py once more: the interpreter starts afresh,
\* data/combined_atms.csv is the same, the files of the first run are
\* still on disk
Rerun ==
    /\ pc = "done"
    /\ ~earlier.any
    /\ earlier' = [any |-> TRUE, generated |-> insights_report.generated,
                   files |-> files, report |-> insights_report]
    /\ pc' = "load"
    /\ files' = {}
    /\ df' = <<>>
    /\ comparison_banks' = <<>>
    /\ branch_counts' = <<>> /\ atb_count' = 0 /\ total_count' = 0 /\ atb_rank' = 0
    /\ market_share' = <<>> /\ market_pct' = <<>>
    /\ cluster' = <<>> /\ cluster_df' = <<>>
    /\ region' = <<>> /\ atb_region' = <<>>
    /\ gaps' = <<>> /\ gap_df' = <<>>
    /\ atb_analysis' = <<>> /\ nearest_comp_counts' = <<>>
    /\ intensity_data' = <<>>
    /\ zone' = <<>> /\ zone_market_data' = <<>>
    /\ opportunity_scores_baku' = <<>> /\ atb_coords_baku' = <<>>
    /\ top_opportunities_baku' = <<>>
    /\ opportunity_scores_regions' = <<>> /\ grid_points_regions' = <<>>
    /\ atb_coords_regions' = <<>> /\ top_opportunities_regions' = <<>>
    /\ metrics' = <<>>
    /\ top_banks' = <<>>
    /\ insights_report' = <<>>
    /\ assigned' = {}
    /\ UNCHANGED <<raw, error, v_fetch>>

NextRerun ==
    \/ Next
    \/ Rerun

SpecRerun == InitFullRun /\ [][NextRerun]_vars

-----------------------------------------------------------------------------
(* The gap analysis and the nearest competitor analysis on their own: the
   two steps run on a cleaned table, whatever the earlier charts do with it *)

InitGapSteps ==
    /\ raw \in SeqsUpTo(RowKinds, MaxRows)
    /\ df = Floats(DropNa(Coerced(raw)))
    /\ pc = "chart9"
    /\ error = "none"
    /\ files = {}
    /\ comparison_banks = <<>>
    /\ branch_counts = <<>> /\ atb_count = 0 /\ total_count = 0 /\ atb_rank = 0
    /\ market_share = <<>> /\ market_pct = <<>>
    /\ cluster = <<>> /\ cluster_df = <<>>
    /\ region = <<>> /\ atb_region = <<>>
    /\ gaps = <<>> /\ gap_df = <<>>
    /\ atb_analysis = <<>> /\ nearest_comp_counts = <<>>
    /\ intensity_data = <<>>
    /\ zone = <<>> /\ zone_market_data = <<>>
    /\ opportunity_scores_baku = <<>> /\ atb_coords_baku = <<>>
    /\ top_opportunities_baku = <<>>
    /\ opportunity_scores_regions = <<>> /\ grid_points_regions = <<>>
    /\ atb_coords_regions = <<>> /\ top_opportunities_regions = <<>>
    /\ metrics = <<>>
    /\ top_banks = <<>>
    /\ insights_report = <<>>
    /\ NoFetch
    /\ earlier = NoRun /\ assigned = {}

NextGapSteps ==
    \/ Chart9
    \/ Chart10

SpecGapSteps == InitGapSteps /\ [][NextGapSteps]_vars

-----------------------------------------------------------------------------
(* The multi-metric comparison on its own, on tables with enough banks for
   the target bank to fall out of the first five of value_counts().  The
   competitors are named in order of first appearance; the rows are spread
   over the six places. *)

ShortlistRows == 6

ShortlistCompetitors ==
    << "Kapital Bank", "ABB", "Xalq Bank", "Rabita Bank", "Bank Respublika" >>

Places == << P1, P2, P3, P4, P5, P6 >>

PlaceOf(i) == Places[((i - 1) % Len(Places)) + 1]

NextNames(names) ==
    LET used == Cardinality({k \in DOMAIN ShortlistCompetitors :
                               ShortlistCompetitors[k] \in Range(names)})
    IN  {TARGET} \cup {ShortlistCompetitors[k] :
                         k \in 1..Min({Len(ShortlistCompetitors), used + 1})}

RECURSIVE NameLists(_)
NameLists(n) ==
    IF n = 0 THEN {<<>>}
    ELSE LET shorter == NameLists(n - 1)
         IN  shorter \cup UNION {{Append(names, b) : b \in NextNames(names)} :
                                   names \in {l \in shorter : Len(l) = n - 1}}

TableOf(names) ==
    Tup([i \in DOMAIN names |->
            [bank_name |-> names[i], lat |-> PlaceOf(i).lat, long |-> PlaceOf(i).long]])

InitShortlist ==
    /\ \E names \in {l \in NameLists(ShortlistRows) : TARGET \in Range(l)} :
          /\ raw = Tup([i \in DOMAIN names |-> At(names[i], PlaceOf(i))])
          /\ df = TableOf(names)
    /\ pc = "chart14"
    /\ error = "none"
    /\ files = {}
    /\ comparison_banks = <<>>
    /\ branch_counts = <<>> /\ atb_count = 0 /\ total_count = 0 /\ atb_rank = 0
    /\ market_share = <<>> /\ market_pct = <<>>
    /\ cluster = <<>> /\ cluster_df = <<>>
    /\ region = Tup([i \in DOMAIN df |-> RegionOf(df[i])])
    /\ atb_region = <<>>
    /\ gaps = <<>> /\ gap_df = <<>>
    /\ atb_analysis = <<>> /\ nearest_comp_counts = <<>>
    /\ intensity_data =
          [b \in Range(BankNames(df)) |->
              calculate_competitive_intensity(df, b, intensity_radius)]
    /\ zone = <<>> /\ zone_market_data = <<>>
    /\ opportunity_scores_baku = <<>> /\ atb_coords_baku = <<>>
    /\ top_opportunities_baku = <<>>
    /\ opportunity_scores_regions = <<>> /\ grid_points_regions = <<>>
    /\ atb_coords_regions = <<>> /\ top_opportunities_regions = <<>>
    /\ metrics = <<>>
    /\ top_banks = <<>>
    /\ insights_report = <<>>
    /\ NoFetch
    /\ earlier = NoRun /\ assigned = {}

NextShortlist == Chart14

SpecShortlist == InitShortlist /\ [][NextShortlist]_vars

-----------------------------------------------------------------------------
(* Properties *)

\* the rows of table d that belong to bank b, and the banks of d
RowsOfBank(d, b) == {i \in DOMAIN d : d[i].bank_name = b}
BanksOf(d) == {d[i].bank_name : i \in DOMAIN d} \ {NoBank}

\* the k-th smallest element of a set of row indices
Nth(S, k) == CHOOSE i \in S : Cardinality({j \in S : j <= i}) = k

\* the rows of the target bank in df, and all other rows
TargetRows == RowsOfBank(df, TARGET)
CompetitorRowsOfDf == DOMAIN df \ TargetRows

\* the coordinates of a set of rows of df
CoordsOfRows(S) == {[lat |-> df[i].lat, long |-> df[i].long] : i \in S}

\* the rows of df inside and outside the box 40.30..40.65, 49.60..50.20
InUrbanBox(p) ==
    /\ 40300 <= p.lat /\ p.lat <= 40650
    /\ 49600 <= p.long /\ p.long <= 50200
UrbanRows == {i \in DOMAIN df : InUrbanBox(df[i])}
RegionalRows == DOMAIN df \ UrbanRows

\* C1 (as claimed): when the cleaned dataset has rows of other banks and no
\* row of the target bank the run ends in an insufficient-data error, and
\* the target coordinates an opportunity grid measures to are always
\* coordinates of target-bank rows of its sub-region, never a placeholder.
C1_FailsWithInsufficientData ==
    /\ (pc = "failed" /\ TargetRows = {} /\ BanksOf(df) # {}) =>
          error = "InsufficientDataError"
    /\ Range(atb_coords_baku) \subseteq CoordsOfRows(TargetRows \cap UrbanRows)
    /\ Range(atb_coords_regions) \subseteq CoordsOfRows(TargetRows \cap RegionalRows)

\* the rows of the input file whose lat and long are both numbers
NumericRows == {i \in DOMAIN raw : raw[i].lat.kind = "num" /\ raw[i].long.kind = "num"}

\* C2: after the load-and-clean step the dataset is exactly the input rows
\* whose lat and long both parse as numbers: as many rows, in the input
\* order, each with the name and the coordinates of its input row.
C2_CleanKeepsNumericRows ==
    pc # "load" =>
        /\ Len(df) = Cardinality(NumericRows)
        /\ \A k \in DOMAIN df :
              /\ df[k].bank_name = raw[Nth(NumericRows, k)].bank_name
              /\ df[k].lat = raw[Nth(NumericRows, k)].lat.v
              /\ df[k].long = raw[Nth(NumericRows, k)].long.v

\* C2 witness: the cleaning has dropped a row that stood before a row it kept
C2_Witness ==
    /\ pc # "load"
    /\ \E i \in DOMAIN raw \ NumericRows : \E j \in NumericRows : i < j
    /\ \E i \in DOMAIN raw \ NumericRows : raw[i].lat.kind = "num"

\* C3 (as claimed): after the cleaning step every row has a bank name.
C3_NoMissingBankName ==
    pc # "load" => \A i \in DOMAIN df : df[i].bank_name # NoBank

\* 1 + the number of banks of table d with strictly more rows than bank b
CompetitionRank(d, b) ==
    1 + Cardinality({c \in BanksOf(d) :
                        Cardinality(RowsOfBank(d, c)) > Cardinality(RowsOfBank(d, b))})

\* the rows of df tagged with zone z, as a table
ZoneTable(z) == Filter(df, {i \in DOMAIN df : zone[i] = z})

\* C4 (as claimed): every rank shown for a bank is 1 + the number of banks
\* with strictly more rows: the target bank's rank of Chart 1, its rank in
\* each zone of Chart 12 and the rank labels of Chart 15.
C4_RankIsCompetitionRank ==
    /\ atb_rank # 0 => atb_rank = CompetitionRank(df, TARGET)
    /\ \A k \in DOMAIN zone_market_data :
          zone_market_data[k].ATB_Rank # 0 =>
              zone_market_data[k].ATB_Rank =
                  CompetitionRank(ZoneTable(zone_market_data[k].Zone), TARGET)
    /\ \A k \in DOMAIN top_banks :
          top_banks[k].label = CompetitionRank(df, top_banks[k].bank)

\* the numerators of the shares
ShareNums == Tup([k \in DOMAIN market_pct |-> market_pct[k].num])

\* C5 (as claimed): the share of each bank is its row count / the number of
\* cleaned rows * 100, and the shares of all banks sum to exactly 100.
C5_SharesSumTo100 ==
    market_pct # <<>> =>
        /\ \A k \in DOMAIN market_pct :
              /\ market_pct[k].den = Len(df)
              /\ market_pct[k].num = 100 * Cardinality(RowsOfBank(df, market_pct[k].bank))
        /\ SumSeq(ShareNums) = 100 * Len(df)

\* the rows of df other than row i that are nearer than 0.1 to it
OthersWithinRadius(i) ==
    {j \in DOMAIN df \ {i} : Dist2(df[j], df[i]) < 100 * 100}

\* C6 (as claimed): the intensity of a row is the number of all other rows
\* within 0.1 of it, a different row at the same coordinates included.
C6_IntensityCountsAllOthers ==
    \A b \in DOMAIN intensity_data : \A k \in DOMAIN intensity_data[b] :
        intensity_data[b][k] = Cardinality(OthersWithinRadius(Nth(RowsOfBank(df, b), k)))

\* C7: the intensity of a row never counts the row itself: it is at most
\* the number of the other rows within the radius.
C7_IntensityExcludesSelf ==
    \A b \in DOMAIN intensity_data : \A k \in DOMAIN intensity_data[b] :
        intensity_data[b][k] <= Cardinality(OthersWithinRadius(Nth(RowsOfBank(df, b), k)))

\* C7 witness: a row that has another row within the radius has been counted
C7_Witness ==
    \E b \in DOMAIN intensity_data : \E k \in DOMAIN intensity_data[b] :
        /\ intensity_data[b][k] >= 1
        /\ intensity_data[b][k] = Cardinality(OthersWithinRadius(Nth(RowsOfBank(df, b), k)))

\* the squared distance of row i of df to the nearest row of the target bank
D2ToTarget(i) == Min({Dist2(df[i], df[t]) : t \in TargetRows})

\* the competitor rows farther than 0.3 from every row of the target bank
FarRows == {i \in CompetitorRowsOfDf : D2ToTarget(i) > 300 * 300}

\* gap entry g is row i of df, and rows i and j of df read the same
IsRow(g, i) == g.lat = df[i].lat /\ g.long = df[i].long /\ g.bank = df[i].bank_name
SameRow(i, j) ==
    df[i].lat = df[j].lat /\ df[i].long = df[j].long /\ df[i].bank_name = df[j].bank_name

\* C8: the gap list is exactly the competitor rows whose distance to the
\* nearest target-bank row is greater than 0.3, each once, in the order of
\* non-increasing distance.
C8_GapsAreFarCompetitors ==
    gap_df # <<>> =>
        /\ Len(gaps) = Cardinality(FarRows)
        /\ \A k \in DOMAIN gaps :
              \E i \in FarRows : IsRow(gaps[k], i) /\ gaps[k].d2 = D2ToTarget(i)
        /\ \A i \in FarRows :
              Cardinality({k \in DOMAIN gaps : IsRow(gaps[k], i)}) =
              Cardinality({j \in FarRows : SameRow(j, i)})
        /\ \A k \in DOMAIN gaps : gaps[k].bank # TARGET
        /\ \A k \in 1..(Len(gaps) - 1) :
              /\ gaps[k].d2 >= gaps[k + 1].d2
              /\ gaps[k].distance_to_bob >= gaps[k + 1].distance_to_bob

\* C8 witness: two gaps at different distances, and a competitor row that
\* is near enough to the target bank to be left out
C8_Witness ==
    /\ Len(gaps) >= 2
    /\ gaps[1].d2 > gaps[2].d2
    /\ \E i \in CompetitorRowsOfDf : D2ToTarget(i) <= 300 * 300 /\ D2ToTarget(i) > 100 * 100

\* C9: every point of the regional grid inside the urban box scores 0.
C9_UrbanBoxScoresZero ==
    \A k \in DOMAIN opportunity_scores_regions :
        InUrbanBox(grid_points_regions[k]) => opportunity_scores_regions[k] = 0

\* C9 witness: a scored regional grid point inside the urban box that is
\* away from every target coordinate, next to grid points that score
\* above 0
C9_Witness ==
    /\ \E k \in DOMAIN opportunity_scores_regions :
          /\ InUrbanBox(grid_points_regions[k])
          /\ \A t \in DOMAIN atb_coords_regions :
                Dist2(atb_coords_regions[t], grid_points_regions[k]) > 0
    /\ \E k \in DOMAIN opportunity_scores_regions : opportunity_scores_regions[k] > 0

\* score s of point p is (distance to the nearest row of targets) * w1 +
\* (number of the rows of comps nearer than r) * w2
ScoreAsClaimed(s, p, targets, comps, w1, w2, r) ==
    \E t \in targets :
        /\ \A u \in targets : Dist2(df[t], p) <= Dist2(df[u], p)
        /\ s = ISqrt(Dist2(df[t], p)) * w1
               + Cardinality({c \in comps : Dist2(df[c], p) < r * r}) * w2

\* C10 (as claimed): the score of every grid point is the distance to the
\* nearest target-bank row of its sub-region * W1 + the number of that
\* sub-region's competitor rows within R * W2, with (15, 0.8, 0.05) on the
\* urban grid and (10, 0.5, 0.3) on the regional grid outside the urban
\* box, and is never negative.
C10_ScoreFormula ==
    /\ \A k \in DOMAIN opportunity_scores_baku :
          /\ ScoreAsClaimed(opportunity_scores_baku[k], grid_points_baku[k],
                            TargetRows \cap UrbanRows, CompetitorRowsOfDf \cap UrbanRows,
                            15, 800, 50)
          /\ opportunity_scores_baku[k] >= 0
    /\ \A k \in DOMAIN opportunity_scores_regions :
          ~InUrbanBox(grid_points_regions[k]) =>
              /\ ScoreAsClaimed(opportunity_scores_regions[k], grid_points_regions[k],
                                TargetRows \cap RegionalRows,
                                CompetitorRowsOfDf \cap RegionalRows, 10, 500, 300)
              /\ opportunity_scores_regions[k] >= 0

\* the score of point p of a grid (the points of a grid are distinct)
ScoreOf(grid, scores, p) == scores[CHOOSE k \in DOMAIN grid : grid[k] = p]

\* top lists n distinct points of the grid in the order of non-increasing
\* score, and no point of the grid outside top scores higher than one in it
IsTopList(top, grid, scores, n) ==
    /\ Len(top) = n
    /\ \A i \in DOMAIN top : top[i] \in Range(grid)
    /\ \A i, j \in DOMAIN top : i # j => top[i] # top[j]
    /\ \A i \in 1..(Len(top) - 1) :
          ScoreOf(grid, scores, top[i]) >= ScoreOf(grid, scores, top[i + 1])
    /\ \A k \in DOMAIN grid :
          grid[k] \notin Range(top) =>
              \A i \in DOMAIN top : scores[k] <= ScoreOf(grid, scores, top[i])

\* C11: on each opportunity grid the recommended locations are the top_n
\* grid points with the highest scores in the order of non-increasing
\* score: exactly top_n of them, and no grid point outside the list scores
\* higher than one in it.  (The regional grid exists when a row of the
\* dataset lies outside the Baku-Absheron box.)
C11_TopLocations ==
    /\ opportunity_scores_baku # <<>> =>
          IsTopList(top_opportunities_baku, grid_points_baku,
                    opportunity_scores_baku, top_n_baku)
    /\ opportunity_scores_regions # <<>> =>
          IsTopList(top_opportunities_regions, grid_points_regions,
                    opportunity_scores_regions, top_n_regions)

\* C11 witness: both lists are made; the regional grid has a point inside
\* the urban box, the regional list holds points of different scores, and
\* points of both grids are left out
C11_Witness ==
    /\ Len(top_opportunities_baku) = top_n_baku
    /\ Len(top_opportunities_regions) = top_n_regions
    /\ \E k \in DOMAIN grid_points_regions : InUrbanBox(grid_points_regions[k])
    /\ ScoreOf(grid_points_regions, opportunity_scores_regions, top_opportunities_regions[1])
          > ScoreOf(grid_points_regions, opportunity_scores_regions,
                    top_opportunities_regions[top_n_regions])
    /\ \E k \in DOMAIN grid_points_regions :
          /\ grid_points_regions[k] \notin Range(top_opportunities_regions)
          /\ opportunity_scores_regions[k] > 0
    /\ \E k \in DOMAIN grid_points_baku :
          grid_points_baku[k] \notin Range(top_opportunities_baku)

\* the ordered rule list of the zone tag: (label, predicate at (lat, long))
ZoneRules(lat, long) ==
    << [label |-> "Baku City",
        holds |-> 40300 <= lat /\ lat <= 40500 /\ 49700 <= long /\ long <= 50000],
       [label |-> "Absheron",
        holds |-> 40200 <= lat /\ lat <= 40600 /\ 49500 <= long /\ long <= 50300],
       [label |-> "North", holds |-> lat > 41000],
       [label |-> "Northwest", holds |-> lat > 40500 /\ long < 48500],
       [label |-> "Central",
        holds |-> 40000 <= lat /\ lat <= 40800 /\ 47000 <= long /\ long < 49500],
       [label |-> "South", holds |-> lat < 39000],
       [label |-> "West", holds |-> long < 46000] >>

\* the rules that hold at (lat, long)
ZoneHits(lat, long) == {k \in 1..7 : ZoneRules(lat, long)[k].holds}

\* the label of the first rule that holds, Other when none holds
FirstMatch(lat, long) ==
    IF ZoneHits(lat, long) = {} THEN "Other"
    ELSE ZoneRules(lat, long)[Min(ZoneHits(lat, long))].label

ZoneLabels ==
    {"Baku City", "Absheron", "North", "Northwest", "Central", "South", "West", "Other"}

\* coordinates on, next to and between the thresholds of the rules
ZoneLats == {38750, 39000, 39500, 40000, 40200, 40300, 40400, 40500, 40501, 40600,
             40800, 41000, 41001}
ZoneLongs == {45500, 46000, 46360, 47000, 48499, 48500, 49499, 49500, 49700, 49850,
              50000, 50300, 50301}

\* C12: every row is tagged with exactly one of the eight zone labels, the
\* label of the first rule of the ordered list that holds at its (lat,
\* long) and Other when none holds; the zone and the region of a row depend
\* on its (lat, long) alone.
C12_ZoneIsFirstMatch ==
    zone # <<>> =>
        /\ DOMAIN zone = DOMAIN df
        /\ \A i \in DOMAIN df :
              /\ zone[i] \in ZoneLabels
              /\ zone[i] = FirstMatch(df[i].lat, df[i].long)
        /\ \A i, j \in DOMAIN df :
              (df[i].lat = df[j].lat /\ df[i].long = df[j].long) =>
                  zone[i] = zone[j] /\ region[i] = region[j]
        /\ \A lat \in ZoneLats : \A long \in ZoneLongs :
              assign_zone([lat |-> lat, long |-> long]) = FirstMatch(lat, long)

\* C12 witness: rows of three zones are tagged, two rows of different banks
\* at the same coordinates among them, a row at which two rules hold is
\* tagged, and the coordinates tried give all eight labels
C12_Witness ==
    /\ zone # <<>>
    /\ Cardinality(Range(zone)) >= 3
    /\ \E i, j \in DOMAIN df :
          /\ i < j /\ df[i].lat = df[j].lat /\ df[i].long = df[j].long
          /\ df[i].bank_name # df[j].bank_name
    /\ \E i \in DOMAIN df : Cardinality(ZoneHits(df[i].lat, df[i].long)) >= 2
    /\ {FirstMatch(lat, long) : lat \in ZoneLats, long \in ZoneLongs} = ZoneLabels

IsTopByCount(list, n) ==
    LET banks == BanksOf(df)
        count(b) == Cardinality(RowsOfBank(df, b))
    IN  /\ Len(list) = Min({n, Cardinality(banks)})
        /\ Range(list) \subseteq banks
        /\ \A i, j \in DOMAIN list : i < j =>
              list[i] # list[j] /\ count(list[i]) >= count(list[j])
        /\ \A b \in banks \ Range(list) : \A i \in DOMAIN list :
              count(b) <= count(list[i])

\* C14: the shortlist of the multi-metric comparison always contains the
\* target bank and no bank twice; it is the five banks with most rows when
\* the target bank is among them, and the four banks with most rows
\* followed by the target bank otherwise.
C14_Shortlist ==
    metrics # <<>> =>
        /\ TARGET \in Range(comparison_banks)
        /\ \A i, j \in DOMAIN comparison_banks :
              i # j => comparison_banks[i] # comparison_banks[j]
        /\ \/ IsTopByCount(comparison_banks, 5)
           \/ /\ Len(comparison_banks) = 5
              /\ comparison_banks[5] = TARGET
              /\ IsTopByCount(SubSeq(comparison_banks, 1, 4), 4)
              /\ Cardinality({b \in BanksOf(df) \ {TARGET} :
                    Cardinality(RowsOfBank(df, b)) >= Cardinality(TargetRows)}) >= 5
        /\ Len(metrics) = Len(comparison_banks)
        /\ \A k \in DOMAIN metrics : metrics[k].Bank = comparison_banks[k]

\* C14 witness: six banks of one row each, the target bank last in the
\* file; the shortlist is the first four followed by the target bank, and
\* the fifth bank is left out
C14_Witness ==
    /\ metrics # <<>>
    /\ Cardinality(BanksOf(df)) = 6
    /\ Len(comparison_banks) = 5
    /\ comparison_banks[5] = TARGET
    /\ \A k \in 1..4 : comparison_banks[k] = df[k].bank_name
    /\ df[5].bank_name \notin Range(comparison_banks)

\* the rows of bank b whose region is r
RowsInRegion(b, r) == {i \in RowsOfBank(df, b) : region[i] = r}

\* the third metric of the k-th shortlisted bank is the percentage of the
\* bank's rows whose region is r
ThirdMetricIsShareOf(k, r) ==
    LET b == metrics[k].Bank
        pct == metrics[k].Baku_Percentage
    IN  /\ pct.den > 0
        /\ pct.num * Cardinality(RowsOfBank(df, b)) =
              100 * Cardinality(RowsInRegion(b, r)) * pct.den

\* C15 as stated: the third metric of every shortlisted bank is the
\* percentage of the bank's rows in the region 'Regions' (0 for a bank
\* with all rows inside the Baku box, 100 for a bank with all rows outside).
C15_ThirdMetricIsRegionsShare ==
    \A k \in DOMAIN metrics : ThirdMetricIsShareOf(k, "Regions")

\* C15, corrected: the third metric of every shortlisted bank is the
\* percentage of the bank's rows in the region 'Baku': 100 for a bank with
\* all rows inside the Baku box and 0 for a bank with all rows outside.
C15_ThirdMetricIsBakuShare ==
    \A k \in DOMAIN metrics :
        /\ ThirdMetricIsShareOf(k, "Baku")
        /\ (\A i \in RowsOfBank(df, metrics[k].Bank) :
               InCityBox(df[i].lat, df[i].long)) =>
              metrics[k].Baku_Percentage.num = 100 * metrics[k].Baku_Percentage.den
        /\ (\A i \in RowsOfBank(df, metrics[k].Bank) :
               ~InCityBox(df[i].lat, df[i].long)) =>
              metrics[k].Baku_Percentage.num = 0

\* C15 witness: the shortlist holds a bank with all rows inside the Baku
\* box and a bank with all rows outside it
C15_Witness ==
    /\ \E k \in DOMAIN metrics :
          /\ RowsInRegion(metrics[k].Bank, "Regions") = {}
          /\ metrics[k].Baku_Percentage.num = 100 * metrics[k].Baku_Percentage.den
    /\ \E k \in DOMAIN metrics :
          /\ RowsInRegion(metrics[k].Bank, "Baku") = {}
          /\ metrics[k].Baku_Percentage.num = 0

\* the run has reached the end of the script
Completed == pc = "done"

ReportFile == "docs/STRATEGIC_INSIGHTS.txt"

FetcherRan == ran # "none"

\* the body of the answer was parsed
BodyParsed == FetcherRan /\ response.net = "ok" /\ response.parses

IsListOfDicts(v) == v.t = "arr" /\ \A i \in DOMAIN v.items : v.items[i].t = "obj"

\* the run has printed an error line
PrintedError ==
    \E k \in DOMAIN out : out[k].text \in {"Error fetching data: {e}", "Error: {e}"}

\* C17: when the body of the answer parses as JSON and its top level is not
\* an array of objects, the fetcher fails: main returns 1 and no CSV is
\* written.
C17_MalformedBodyFails ==
    (/\ BodyParsed
     /\ ~(response.status >= 400 /\ response.status < 600)
     /\ ~IsListOfDicts(response.body)) =>
        ret = 1 /\ PrintedError /\ ~wrote

\* C18: main returns 0 when fetch, parse and write all succeed; it returns
\* 1 and prints a message when the request fails at the network level,
\* when the server answers with a status that is not 2xx, or when the body
\* cannot be parsed; in none of these error cases is a CSV written.
C18_ReturnCodes ==
    FetcherRan =>
        /\ wrote => ret = 0
        /\ (\/ response.net # "ok"
            \/ response.status < 200 \/ response.status > 299
            \/ ~response.parses) =>
              ret = 1 /\ PrintedError /\ ~wrote

\* C19: a run of a fetcher or of the analysis that ends with an error has
\* written none of its output files.
C19_NoOutputOnError ==
    /\ pc = "failed" => files = {}
    /\ (FetcherRan /\ ret = 1) => ~wrote

\* the records the last run fetched: the items of the list (no record
\* when the fetch failed or gave no list), as the fetcher writes them
FetchedRecords ==
    IF branches.raised = "none" /\ branches.value.t = "arr"
    THEN branches.value.items ELSE <<>>

\* the file holds exactly the dicts, one line each in their order, under
\* a header of all their keys
HoldsExactly(file, dicts) ==
    /\ Range(file.header) = UNION {Range(dicts[i].keys) : i \in DOMAIN dicts}
    /\ Len(file.rows) = Len(dicts)
    /\ \A i \in DOMAIN dicts :
          /\ Len(file.rows[i]) = Len(file.header)
          /\ \A j \in DOMAIN file.header :
                file.rows[i][j] = CsvCell(Get(dicts[i], file.header[j]))

\* the file of fetcher f holds exactly the records
HoldsRecords(f, file, records) ==
    IF f = "abb" THEN HoldsExactly(file, records)
    ELSE HoldsExactly(file, Tup([i \in DOMAIN records |-> flatten_branch_data(records[i])]))

\* C20 as stated: after every run of a fetcher its output CSV holds exactly
\* the records fetched in that run.
C20_FileHoldsFetched ==
    FetcherRan => HoldsRecords(ran, csv[ran], FetchedRecords)

\* C20, corrected: after every run of a fetcher that has written its CSV,
\* the file holds exactly the records fetched in that run, whatever it held
\* before; a run that has not written (it failed, or it fetched no record)
\* leaves the file as it was.
C20_WritingRunsOverwrite ==
    [][ /\ \A f \in {"abb", "kb"} \ {ran'} : csv'[f] = csv[f]
        /\ IF wrote'
           THEN /\ ret' = 0
                /\ csv'[ran'].exists
                /\ FetchedRecords' # <<>>
                /\ HoldsRecords(ran', csv'[ran'], FetchedRecords')
           ELSE csv'[ran'] = csv[ran'] ]_vars

\* C20 witness: a run has written a file of as many lines as the longest
\* list of records, with a header of more columns than a line has cells
\* that are not empty
C20_Witness ==
    /\ FetcherRan /\ wrote
    /\ Len(csv[ran].rows) = MaxBranches
    /\ HoldsRecords(ran, csv[ran], FetchedRecords)
    /\ \E i \in DOMAIN csv[ran].rows : \E j \in DOMAIN csv[ran].header :
          csv[ran].rows[i][j] = ""

\* the last run fetched a list of no rows
ZeroRows == FetcherRan /\ branches.raised = "none" /\ branches.value = JArr(<<>>)

PrintedNoData == \E k \in DOMAIN out : out[k].text = "No branch data to save."

\* C21: a run that fetches a list of zero rows does not create, truncate or
\* touch the output file, reports that there is no data, and main returns
\* 0; the file is written only when at least one row was fetched.
C21_ZeroRowsLeaveFile ==
    [][ /\ ZeroRows' => (csv' = csv /\ ~wrote' /\ ret' = 0 /\ PrintedNoData')
        /\ wrote' => Len(FetchedRecords') >= 1 ]_vars

\* C21 witness: a run has fetched zero rows and the file of an earlier run
\* still holds its lines
C21_Witness ==
    /\ ZeroRows /\ ret = 0 /\ ~wrote /\ PrintedNoData
    /\ csv[ran].exists /\ Len(csv[ran].rows) >= 1

\* the rows the last run handed to the csv writer: the fetched records,
\* flattened by the Kapital Bank fetcher
WrittenDicts ==
    IF ran = "kb"
    THEN Tup([i \in DOMAIN FetchedRecords |-> flatten_branch_data(FetchedRecords[i])])
    ELSE FetchedRecords

\* the place of a field name in alphabetical order
AlphaRank(k) == CHOOSE i \in DOMAIN SortedKeys : SortedKeys[i] = k

\* the number the run reported as saved
ReportedSaved ==
    {out[k].n : k \in {k \in DOMAIN out :
        out[k].text = "Successfully saved {len(branches)} branches to {output_file}"}}

\* C22: a written CSV has one header line whose columns are the union of
\* the keys of all rows, in alphabetical order without duplicates, then one
\* data line per fetched branch in input order; a row without a header key
\* has an empty field in that column; the reported row count is the number
\* of data lines.
C22_HeaderAndLines ==
    (FetcherRan /\ wrote) =>
        LET file == csv[ran] IN
        /\ file.exists
        /\ Range(file.header) = UNION {Range(WrittenDicts[i].keys) : i \in DOMAIN WrittenDicts}
        /\ \A i, j \in DOMAIN file.header :
              i < j => AlphaRank(file.header[i]) < AlphaRank(file.header[j])
        /\ Len(file.rows) = Len(FetchedRecords)
        /\ \A i \in DOMAIN file.rows :
              /\ Len(file.rows[i]) = Len(file.header)
              /\ \A j \in DOMAIN file.header :
                    IF HasKey(WrittenDicts[i], file.header[j])
                    THEN file.rows[i][j] = CsvCell(Get(WrittenDicts[i], file.header[j]))
                    ELSE file.rows[i][j] = ""
        /\ ReportedSaved = {Len(file.rows)}

\* C22 witness: a file of two lines of different records under a header of
\* several columns, one line without a key of the header
C22_Witness ==
    /\ FetcherRan /\ wrote
    /\ Len(csv[ran].rows) = 2 /\ csv[ran].rows[1] # csv[ran].rows[2]
    /\ Len(csv[ran].header) >= 3
    /\ \E i \in DOMAIN WrittenDicts : \E j \in DOMAIN csv[ran].header :
          ~HasKey(WrittenDicts[i], csv[ran].header[j]) /\ csv[ran].rows[i][j] = ""
    /\ ReportedSaved = {2}

\* the cell of line i in the column named k (the column is in the header)
CellOf(file, i, k) == file.rows[i][CHOOSE j \in DOMAIN file.header : file.header[j] = k]

\* the bank a fetcher is written for
SourceBank(f) == IF f = "abb" THEN "ABB" ELSE "Kapital Bank"

\* C23: every row written by either fetcher has a bank_name column holding
\* the constant bank name of the source, and lat and long columns holding
\* the coordinates of the branch.
C23_RequiredColumns ==
    (FetcherRan /\ wrote) =>
        LET file == csv[ran] IN
        /\ {"bank_name", "lat", "long"} \subseteq Range(file.header)
        /\ \A i \in DOMAIN file.rows :
              /\ CellOf(file, i, "bank_name") = SourceBank(ran)
              /\ CellOf(file, i, "lat") # ""
              /\ CellOf(file, i, "long") # ""

\* branch b has a working-days list
HasDaysList(b) == HasKey(b, "working_days") /\ Get(b, "working_days").t = "arr"

\* the entries of the working-days list of b, none when it has no list
DaysOf(b) == IF HasDaysList(b) THEN Get(b, "working_days").items ELSE <<>>

\* every entry of the list is a dict whose day name, when it has one, is a
\* string
DaysWellFormed(b) ==
    \A k \in DOMAIN DaysOf(b) :
        /\ DaysOf(b)[k].t = "obj"
        /\ HasKey(DaysOf(b)[k], "day_of_week_name") =>
              Get(DaysOf(b)[k], "day_of_week_name").t = "str"

\* the day_{n}_* column names of weekday n
DayColumns(n) == {DayKey(n, DayFields[j][1]) : j \in DOMAIN DayFields}

\* the weekdays of the model
Weekdays == {JNum(1), JNum(2), JNull}

\* the weekdays in the working-days list of branch b
ObservedIn(b) == {Get(DaysOf(b)[k], "day_of_week") : k \in DOMAIN DaysOf(b)}

\* C24: in a CSV of the Kapital Bank fetcher the day_{n}_* columns are
\* exactly those of the weekdays n found in the working-days list of at
\* least one branch; a branch whose list omits weekday n, or that has no
\* working-days list, is written with empty values in every day_{n}_*
\* column, and flattening never fails on such a branch.
C24_DayColumns ==
    (FetcherRan /\ ran = "kb" /\ BodyParsed /\ response.status = 200
     /\ IsListOfDicts(response.body)) =>
        LET records == response.body.items
            file == csv["kb"]
        IN  /\ wrote =>
                 /\ \A n \in Weekdays :
                       IF \E i \in DOMAIN records : n \in ObservedIn(records[i])
                       THEN DayColumns(n) \subseteq Range(file.header)
                       ELSE DayColumns(n) \cap Range(file.header) = {}
                 /\ \A i \in DOMAIN records : \A n \in Weekdays :
                       n \notin ObservedIn(records[i]) =>
                          \A j \in DOMAIN file.header :
                             file.header[j] \in DayColumns(n) => file.rows[i][j] = ""
            /\ (\A i \in DOMAIN records : DaysWellFormed(records[i])) =>
                  caught \in {"none", "OSError"}

\* C25: running a component twice on the same upstream data gives the same
\* output files: a second completed analysis run on the same combined CSV
\* writes the same report text and the same set of files as the first, and
\* a second run of a fetcher on the same response writes the same CSV.
C25_SameOutputs ==
    [][ /\ (pc' = "done" /\ earlier'.any) =>
              (insights_report' = earlier'.report /\ files' = earlier'.files)
        /\ (ran' = ran /\ response' = response /\ wrote /\ wrote') =>
              csv' = csv ]_vars

\* the target bank holds at least 10% of all rows
TargetMet == 10 * atb_count >= total_count

\* the report has the phase-budget lines
HasPhaseLines == {"phase_1", "phase_2", "phase_3"} \subseteq DOMAIN insights_report

AssignedBefore(r) ==
    \/ r.name \in assigned
    \/ \E w \in Writes : w.name = r.name /\ w.line \in StepLines(pc) /\ w.line < r.line

\* C27: every step of the analysis that reads a derived column of df
\* (cluster, region, zone) or a derived aggregate (cluster_df, gaps,
\* nearest_comp_counts, intensity_data, atb_region) runs after the step
\* that assigns it: whatever the step that runs next reads has been
\* assigned before, on every execution path.
C27_ReadAfterAssigned ==
    \A r \in Reads : r.line \in StepLines(pc) => AssignedBefore(r)

\* the dashboard is about to read six of the values assigned by earlier steps
C27_Witness ==
    /\ pc = "chart15"
    /\ {"cluster_df", "region", "atb_region", "gaps", "nearest_comp_counts",
        "intensity_data"} \subseteq assigned

\* the cleaned dataset has at least five distinct banks
FiveBanks == Cardinality({df[i].bank_name : i \in DOMAIN df} \ {NoBank}) >= 5

\* the target bank has a row tagged r
TargetIn(r) == \E i \in DOMAIN df : df[i].bank_name = TARGET /\ RegionOf(df[i]) = r

CanComplete == FiveBanks /\ TargetIn("Baku") /\ TargetIn("Regions")

\* the run has ended with an uncaught exception
Aborted == pc = "failed"

\* C28 as stated: a run reaches its final state only if the cleaned dataset
\* has at least five distinct banks and the target bank has a row tagged
\* Baku and a row tagged Regions; on any other dataset the run aborts at a
\* failing lookup (an IndexError or a KeyError) after earlier charts have
\* been written.
C28_AbortsAtLookup ==
    /\ Completed => CanComplete
    /\ (Aborted /\ ~CanComplete) => (files # {} /\ error \in {"IndexError", "KeyError"})

\* C28, corrected: a run reaches its final state only if the cleaned
\* dataset has at least five distinct banks and the target bank has a row
\* tagged Baku and a row tagged Regions; on any other dataset the run ends
\* with an uncaught exception, which may be raised before the lookups of
\* the dashboard and the report, and before any chart is written. A run
\* that aborts after the fifteen charts before the dashboard were written
\* has a dataset without a target row in one of the two regions or with
\* fewer than five banks.
C28_CompletesOnlyIf ==
    /\ Completed => CanComplete
    /\ (Aborted /\ Cardinality(files) >= 15) => ~CanComplete

\* a run on five banks with target rows in both regions has completed
C28_Witness ==
    /\ Completed
    /\ Cardinality({df[i].bank_name : i \in DOMAIN df}) = 5
    /\ TargetIn("Baku") /\ TargetIn("Regions")

\* the placeholder of the regional target coordinates, (40.0, 48.0)
Placeholder == [lat |-> placeholder_regions_lat, long |-> placeholder_regions_long]

\* the regional opportunity scores have been computed
RegionsScored == chart13b_file \in files

\* the score of point p measured to the placeholder: the distance to it
\* times 10 plus the regional competitor rows within 0.3 times 0.5
ScoreToPlaceholder(p) ==
    ISqrt(Dist2(Placeholder, p)) * 10 +
    Cardinality({i \in CompetitorRowsOfDf \cap RegionalRows :
                    Dist2([lat |-> df[i].lat, long |-> df[i].long], p) < 300 * 300}) * 500

\* C29: in the regional opportunity score the array of target coordinates
\* is never empty: when the target bank has no row outside the
\* Baku-Absheron box it is the single placeholder point (40.0, 48.0). The
\* fallback dist_score = 2.0 is therefore never taken, and in that case the
\* score of every grid point outside the box measures the distance to the
\* placeholder.
C29_PlaceholderStandsIn ==
    RegionsScored =>
        /\ Len(atb_coords_regions) > 0
        /\ (TargetRows \cap RegionalRows = {}) =>
              /\ atb_coords_regions = <<Placeholder>>
              /\ \A k \in DOMAIN grid_points_regions :
                    ~InUrbanBox(grid_points_regions[k]) =>
                        opportunity_scores_regions[k] =
                            ScoreToPlaceholder(grid_points_regions[k])

\* the regional grid was scored for a target bank without a row outside the
\* box, and a point outside the box has a score that differs from the
\* score the fallback would give
C29_Witness ==
    /\ RegionsScored
    /\ TargetRows # {}
    /\ TargetRows \cap RegionalRows = {}
    /\ \E k \in DOMAIN grid_points_regions :
          /\ ~InUrbanBox(grid_points_regions[k])
          /\ ISqrt(Dist2(Placeholder, grid_points_regions[k])) # regions_no_atb_dist

\* the zone column has been assigned
Zoned == Len(zone) = Len(df) /\ Len(region) = Len(df) /\ df # <<>>

\* C30: for every row, region = 'Baku' exactly when zone = 'Baku City':
\* both tags test the same inclusive box 40.3 <= lat <= 40.5,
\* 49.7 <= long <= 50.0, and the zone function tests the Baku City rule
\* first.
C30_BakuRegionIsBakuCityZone ==
    Zoned => \A i \in DOMAIN df : region[i] = "Baku" <=> zone[i] = "Baku City"

\* the tagged rows have one on the edge of the Baku box, tagged Baku and
\* Baku City, and one on Absheron outside the Baku box
C30_Witness ==
    /\ Zoned
    /\ \E i \in DOMAIN df : /\ df[i].lat = city_lat_max /\ df[i].long = city_long_min
                             /\ region[i] = "Baku" /\ zone[i] = "Baku City"
    /\ \E i \in DOMAIN df : region[i] = "Regions" /\ zone[i] = "Absheron"

====
